---- MODULE Spec2Model ----
(***************************************************************************)
(* solrindexer/indexdata.py: the MMD-to-Solr document transformation       *)
(* (MMD4SolR.tosolr) and the indexing / parent-child linking protocol      *)
(* (IndexMMD.index_record, IndexMMD.add_level2) against a Solr core.       *)
(*                                                                         *)
(* Python strings that the code edits character by character are modelled  *)
(* as sequences of one-character strings, so that str.replace is computed  *)
(* and not assumed.                                                        *)
(***************************************************************************)
EXTENDS Integers, Sequences, FiniteSets, TLC

VARIABLES
    store,      \* the Solr core: sanitized id -> stored document
    pc,         \* per ingestion process: position in its current call
    rec,        \* per process: the MMD record (self.mydoc) being ingested
    mydict,     \* per process: the document built by tosolr / mutated by the indexer
    myresults,  \* per process: add_level2's fetched and updated parent document
    myparid,    \* per process: add_level2's sanitized parent id used in the query
    ops,        \* per process: external calls made by the current/last call, in order
    outcome,    \* per process: how the last call ended
    linked,     \* history: the links (parent id, child entry, process) written, in order
    calls       \* history: number of records ingested so far

vars == <<store, pc, rec, mydict, myresults, myparid, ops, outcome, linked, calls>>

\* the number of records a run ingests
MaxCalls == 3

Procs == {"p1", "p2"}

(***************************************************************************)
(* Strings                                                                 *)
(***************************************************************************)

\* str.startswith
StartsWith(s, pre) == Len(s) >= Len(pre) /\ SubSeq(s, 1, Len(pre)) = pre

\* str.replace(old, new): every non-overlapping occurrence, left to right
RECURSIVE Replace(_, _, _)
Replace(s, old, new) ==
    IF Len(s) < Len(old) \/ Len(s) = 0 THEN s
    ELSE IF StartsWith(s, old)
         THEN new \o Replace(SubSeq(s, Len(old) + 1, Len(s)), old, new)
         ELSE <<Head(s)>> \o Replace(Tail(s), old, new)

\* the `in` operator on two strings: substring test
IsSubstring(e, s) ==
    \E i \in 1..(Len(s) - Len(e) + 1) : SubSeq(s, i, i + Len(e) - 1) = e

\* a replacement list that forgets the '.'
idreplsNoDot == << <<":">>, <<"/">> >>

\* idrepls = [':','/','.']
idrepls == << <<":">>, <<"/">>, <<".">> >>

\* for e in idrepls: myid = myid.replace(e,'-')
RECURSIVE ReplaceEach(_, _, _)
ReplaceEach(s, olds, new) ==
    IF olds = <<>> THEN s
    ELSE ReplaceEach(Replace(s, Head(olds), new), Tail(olds), new)

SanitizeId(s) == ReplaceEach(s, idrepls, <<"-">>)

(***************************************************************************)
(* Documents                                                               *)
(***************************************************************************)

\* related_dataset of a document: absent, a string (the parent reference
\* written by tosolr) or a list of strings (the parent's child references)
RdAbsent == [kind |-> "absent", str |-> <<>>, list |-> <<>>]
RdStr(s) == [kind |-> "str", str |-> s, list |-> <<>>]
RdList(l) == [kind |-> "list", str |-> <<>>, list |-> l]

\* the sets of store-internal fields a search result is modelled to carry
InternalReplies ==
    { {}, {"_version_"}, {"full_text", "bbox_rpt", "ss_access"},
      {"full_text", "bbox__maxX", "bbox__maxY", "bbox__minX", "bbox__minY",
       "bbox_rpt", "ss_access", "_version_"} }

\* fields Solr adds to a stored document when it is read back
StoreInternal ==
    {"full_text", "bbox__maxX", "bbox__maxY", "bbox__minX", "bbox__minY",
     "bbox_rpt", "ss_access", "_version_"}

\* no document (tosolr did not return / no call made yet)
NoDoc ==
    [id |-> <<>>, metadata_identifier |-> <<>>, metadata_status |-> "absent",
     related_dataset |-> RdAbsent, dataset_type |-> "absent",
     isParent |-> "absent", isChild |-> "absent", feature_type |-> "absent",
     data_access_url_opendap |-> "absent", data_access_url_ogc_wms |-> "absent",
     thumbnail_data |-> "absent", internal |-> {}]

NoOutcome == [kind |-> "none", val |-> "none"]
Returned(v) == [kind |-> "return", val |-> v]
Raised(e) == [kind |-> "raise", val |-> e]

\* one entry of the per-call log of external calls
Op(name, what, ok, n) == [op |-> name, doc |-> what, ok |-> ok, n |-> n]

(***************************************************************************)
(* MMD4SolR.tosolr: the parts of the transformation the indexer reads      *)
(***************************************************************************)

\* an element of the parsed MMD tree that is a plain string or a dict with '#text'
Plain(s) == [shape |-> "str", text |-> s]
Attributed(s) == [shape |-> "dict", text |-> s]

\* a bound of a rectangle: <<>> is None (an empty element), <<v>> a value
BoundKeys == {"north", "south", "east", "west"}

\* mmd:type -> the key 'data_access_url_' + type.replace(" ","_").lower()
DataAccessKey(type) ==
    CASE type = "OPeNDAP" -> "data_access_url_opendap"
      [] type = "OGC WMS" -> "data_access_url_ogc_wms"
      [] OTHER -> "data_access_url_http"

\* """ Identifier """: id is the identifier with ':', '/', '.' replaced by '-'
TosolrId(r) ==
    IF r.metadata_identifier.shape = "dict"
    THEN SanitizeId(r.metadata_identifier.text)
    ELSE SanitizeId(r.metadata_identifier.text)

\* mydict['metadata_identifier'] is the identifier as given
TosolrMetadataIdentifier(r) ==
    IF r.metadata_identifier.shape = "dict"
    THEN r.metadata_identifier.text
    ELSE r.metadata_identifier.text

\* """ Metadata status """
TosolrMetadataStatus(r) == r.metadata_status.text

\* a check that looks at the latitudes only
MissingLatitudeOnly(r) ==
    /\ r.geographic_extent.shape = "dict"
    /\ \E k \in {"north", "south"} : r.geographic_extent.rects[1][k] = << >>

\* single rectangle: any None element of mmd:rectangle raises Warning
MissingSpatialBounds(r) ==
    /\ r.geographic_extent.shape = "dict"
    /\ \E k \in BoundKeys : r.geographic_extent.rects[1][k] = <<>>

\* """ Related dataset """, repeated shape: the last 'parent' entry with text wins
RECURSIVE RelatedFromList(_, _)
RelatedFromList(es, acc) ==
    IF es = <<>> THEN acc
    ELSE LET e == Head(es) IN
         RelatedFromList(Tail(es),
            IF e.relation_type # "absent" /\ e.relation_type = "parent" /\ e.hastext
            THEN RdStr(SanitizeId(e.text))
            ELSE acc)

\* """ Related dataset """
TosolrRelatedDataset(r) ==
    IF r.related_dataset.shape = "absent" THEN RdAbsent
    ELSE IF r.related_dataset.shape = "list"
         THEN RelatedFromList(r.related_dataset.entries, RdAbsent)
         ELSE LET e == r.related_dataset.entries[1] IN
              IF e.hastext THEN RdStr(SanitizeId(e.text)) ELSE RdAbsent

\* """ Data access """: is a data_access element of this key present
TosolrDataAccess(r, key) ==
    IF \E i \in 1..Len(r.data_access) : DataAccessKey(r.data_access[i]) = key
    THEN "url" ELSE "absent"

\* the document tosolr returns when it does not raise
TosolrDoc(r) ==
    [id |-> TosolrId(r),
     metadata_identifier |-> TosolrMetadataIdentifier(r),
     metadata_status |-> TosolrMetadataStatus(r),
     related_dataset |-> TosolrRelatedDataset(r),
     dataset_type |-> "absent", isParent |-> "absent", isChild |-> "absent",
     feature_type |-> "absent",
     data_access_url_opendap |-> TosolrDataAccess(r, "data_access_url_opendap"),
     data_access_url_ogc_wms |-> TosolrDataAccess(r, "data_access_url_ogc_wms"),
     thumbnail_data |-> "absent", internal |-> {}]

\* tosolr: raises Warning('Missing spatial bounds') or returns the document
tosolr(r) ==
    IF MissingSpatialBounds(r)
    THEN [raised |-> TRUE, err |-> "Missing spatial bounds", doc |-> NoDoc]
    ELSE [raised |-> FALSE, err |-> "none", doc |-> TosolrDoc(r)]

(***************************************************************************)
(* The Solr core (pysolr.Solr): add overwrites by id, search by 'id:<q>'   *)
(***************************************************************************)

\* the entries of l that are not in have, in order
RECURSIVE NewEntries(_, _)
NewEntries(l, have) ==
    IF l = << >> THEN << >>
    ELSE IF \E i \in 1..Len(have) : have[i] = Head(l)
         THEN NewEntries(Tail(l), have)
         ELSE <<Head(l)>> \o NewEntries(Tail(l), have)

\* an add that merges into the stored related_dataset list instead of
\* replacing the document (what an atomic "add-distinct" update would do)
StoreAddMerging(st, d) ==
    [i \in DOMAIN st \cup {d.id} |->
        IF i = d.id
        THEN IF /\ i \in DOMAIN st
                /\ st[i].related_dataset.kind = "list"
                /\ d.related_dataset.kind = "list"
             THEN [d EXCEPT !.related_dataset =
                     RdList(st[i].related_dataset.list
                            \o NewEntries(d.related_dataset.list,
                                          st[i].related_dataset.list))]
             ELSE d
        ELSE st[i]]

\* self.solrc.add([doc]): the document replaces any document of the same id
StoreAdd(st, d) ==
    [i \in DOMAIN st \cup {d.id} |-> IF i = d.id THEN d ELSE st[i]]

\* does the query 'id:' + q select the document with this id ('*' selects all)
Matches(q, id) == q = <<"*">> \/ q = id

\* self.solrc.search('id:' + q, rows=100): the matching stored documents
StoreSearch(st, q) == {st[i] : i \in {j \in DOMAIN st : Matches(q, j)}}

(***************************************************************************)
(* IndexMMD.get_feature_type                                               *)
(***************************************************************************)

ValidFeatureTypes ==
    {"point", "timeSeries", "trajectory", "profile", "timeSeriesProfile",
     "trajectoryProfile"}

\* a lookup that returns the attribute as it is
FeatureTypeAsRead(featureType) == featureType

\* the label returned for a featureType attribute that could be read
get_feature_type(featureType) ==
    IF featureType \notin ValidFeatureTypes
    THEN IF featureType \in {"TimeSeries", "timeseries", "timseries"}
         THEN "timeSeries" ELSE featureType
    ELSE featureType

\* what the remote dataset answers: "fail" (cannot be opened / no attribute)
\* or the value of its featureType attribute
FeatureReplies == {"fail", "timseries", "swath"}

\* myfeature after the try/except around get_feature_type ("none" is None)
MyFeature(reply) == IF reply = "fail" THEN "none" ELSE get_feature_type(reply)

(***************************************************************************)
(* IndexMMD.index_record                                                   *)
(***************************************************************************)

Levels == {"None", "1", "2", "3"}

\* a level branch that sets isParent for level 2 as well
TagLevelParentAlways(d, level) ==
    IF level = "1" \/ level = "None"
    THEN [d EXCEPT !.dataset_type = "Level-1", !.isParent = "false"]
    ELSE IF level = "2"
         THEN [d EXCEPT !.dataset_type = "Level-2", !.isParent = "false"]
         ELSE d

\* the level branch: dataset_type and, for level 1, isParent
TagLevel(d, level) ==
    IF level = "1" \/ level = "None"
    THEN [d EXCEPT !.dataset_type = "Level-1", !.isParent = "false"]
    ELSE IF level = "2"
         THEN [d EXCEPT !.dataset_type = "Level-2"]
         ELSE d

\* a status check that compares with the wrong spelling and so never skips
SkipInactiveLowercase(d) == d.metadata_status = "inactive"

\* the metadata_status check that ends index_record before any external call
SkipInactive(d) == d.metadata_status = "Inactive"

\* the feature type step: the log entry (if the lookup ran) and the record after it
FeatureOps(d, reply) ==
    IF d.data_access_url_opendap # "absent"
    THEN << Op("feature", "none", reply # "fail", 0) >>
    ELSE << >>

WithFeature(d, reply) ==
    IF d.data_access_url_opendap # "absent" /\ MyFeature(reply) # "none"
    THEN [d EXCEPT !.feature_type = MyFeature(reply)]
    ELSE d

\* the thumbnail step of index_record; thumb: did add_thumbnail return data
IndexThumbOps(d, addThumbnail, thumb) ==
    IF d.data_access_url_ogc_wms # "absent" /\ addThumbnail
    THEN << Op("thumbnail", "none", thumb, 0) >>
    ELSE << >>

IndexWithThumb(d, addThumbnail, thumb) ==
    IF d.data_access_url_ogc_wms # "absent" /\ addThumbnail
    THEN IF ~thumb
         THEN [d EXCEPT !.data_access_url_ogc_wms = "absent"]
         ELSE [d EXCEPT !.thumbnail_data = "data"]
    ELSE d

\* the answers the feature type lookup can give for a record: it is asked only
\* when the record has an OPeNDAP url
FeatureRepliesFor(d) ==
    IF d.data_access_url_opendap # "absent" THEN FeatureReplies ELSE {"fail"}

\* the outcomes of add_thumbnail for a record: it is called only when the
\* record has a WMS url and addThumbnail is set
ThumbRepliesFor(d, addThumbnail) ==
    IF d.data_access_url_ogc_wms # "absent" /\ addThumbnail THEN BOOLEAN ELSE {FALSE}

\* links recorded for a parent are forgotten when its document is overwritten
RECURSIVE Unlink(_, _)
Unlink(l, id) ==
    IF l = << >> THEN << >>
    ELSE IF Head(l).parent = id THEN Unlink(Tail(l), id)
         ELSE <<Head(l)>> \o Unlink(Tail(l), id)

\* index_record(input_record, addThumbnail, level): the whole call; addok says
\* whether self.solrc.add succeeds
index_record(p, level, addThumbnail, reply, thumb, addok) ==
    /\ pc[p] = "transformed"
    /\ LET tagged == TagLevel(mydict[p], level)
           feat == WithFeature(tagged, reply)
           final == IndexWithThumb(feat, addThumbnail, thumb)
       IN IF SkipInactive(tagged)
          THEN /\ mydict' = [mydict EXCEPT ![p] = tagged]
               /\ ops' = [ops EXCEPT ![p] = << >>]
               /\ outcome' = [outcome EXCEPT ![p] = Returned("False")]
               /\ UNCHANGED <<store, linked>>
          ELSE /\ mydict' = [mydict EXCEPT ![p] = final]
               /\ ops' = [ops EXCEPT ![p] =
                     FeatureOps(tagged, reply)
                     \o IndexThumbOps(feat, addThumbnail, thumb)
                     \o << Op("add", "record", addok, 0) >>]
               /\ IF addok
                  THEN /\ store' = StoreAdd(store, final)
                       /\ linked' = Unlink(linked, final.id)
                       /\ outcome' = [outcome EXCEPT ![p] = Returned("True")]
                  ELSE /\ UNCHANGED <<store, linked>>
                       /\ outcome' = [outcome EXCEPT ![p] = Returned("False")]
    /\ pc' = [pc EXCEPT ![p] = "idle"]
    /\ UNCHANGED <<rec, myresults, myparid, calls>>

(***************************************************************************)
(* IndexMMD.add_level2                                                     *)
(***************************************************************************)

\* the substrings removed from related_dataset ("Fix for NPI data")
NpiPrefixes ==
    << <<"h", "t", "t", "p", ":", "/", "/", "d", "a", "t", "a", ".", "n", "p", "o", "l", "a", "r", ".", "n", "o", "/", "d", "a", "t", "a", "s", "e", "t", "/">>,
       <<"h", "t", "t", "p", "s", ":", "/", "/", "d", "a", "t", "a", ".", "n", "p", "o", "l", "a", "r", ".", "n", "o", "/", "d", "a", "t", "a", "s", "e", "t", "/">>,
       <<"h", "t", "t", "p", ":", "/", "/", "a", "p", "i", ".", "n", "p", "o", "l", "a", "r", ".", "n", "o", "/", "d", "a", "t", "a", "s", "e", "t", "/">>,
       <<".", "x", "m", "l">> >>

\* the four related_dataset.replace(..., '') lines
NpiFix(s) == ReplaceEach(s, NpiPrefixes, << >>)

\* the entry for a child in its parent's related_dataset list
ChildEntry(child) == Replace(child.metadata_identifier, <<":">>, <<"_">>)

\* membership of an entry in a list
InList(e, l) == \E i \in 1..Len(l) : l[i] = e

\* a strip that forgets the version token
StripInternalKeepVersion(d) ==
    [d EXCEPT !.internal = @ \ {"full_text", "bbox__maxX", "bbox__maxY",
                               "bbox__minX", "bbox__minY", "bbox_rpt",
                               "ss_access"}]

\* the result.pop(...) lines
StripInternal(d) ==
    [d EXCEPT !.internal = @ \ {"full_text", "bbox__maxX", "bbox__maxY",
                               "bbox__minX", "bbox__minY", "bbox_rpt",
                               "ss_access", "_version_"}]

\* myresults is rebound to the document only inside the '_version_' branch;
\* otherwise it stays the pysolr Results object and the item assignment fails
ReboundToDoc(result) == "_version_" \in result.internal

\* MergeChild without the "doesn't already exist" check: always appends
MergeChildAlways(parent, child) ==
    LET entry == ChildEntry(child)
        rd == parent.related_dataset
    IN IF rd.kind = "list"
       THEN [err |-> "none",
             doc |-> [parent EXCEPT !.related_dataset = RdList(Append(rd.list, entry))]]
       ELSE IF rd.kind = "str"
            THEN [err |-> "AttributeError", doc |-> parent]
            ELSE [err |-> "none",
                  doc |-> [parent EXCEPT !.related_dataset = RdList(<<entry>>)]]

\* the update of the parent's related_dataset; err is the exception raised
\* by str.append when the fetched field is a string
MergeChild(parent, child) ==
    LET entry == ChildEntry(child)
        rd == parent.related_dataset
    IN IF rd.kind = "list"
       THEN [err |-> "none",
             doc |-> IF ~InList(entry, rd.list)
                     THEN [parent EXCEPT !.related_dataset = RdList(Append(rd.list, entry))]
                     ELSE parent]
       ELSE IF rd.kind = "str"
            THEN IF ~IsSubstring(entry, rd.str)
                 THEN [err |-> "AttributeError", doc |-> parent]
                 ELSE [err |-> "none", doc |-> parent]
            ELSE [err |-> "none",
                  doc |-> [parent EXCEPT !.related_dataset = RdList(<<entry>>)]]

\* a check that only notices the missing parent, not the ambiguous one
NotUniqueOnlyEmpty(n) == n = 0

\* 'if len(myresults) != 1': the record is skipped
NotUnique(n) == n # 1

\* the thumbnail step of add_level2: the wms key is kept when no data came back
Level2ThumbOps(d, addThumbnail, thumb) ==
    IF d.data_access_url_ogc_wms # "absent" /\ addThumbnail
    THEN << Op("thumbnail", "none", thumb, 0) >>
    ELSE << >>

\* 'if addThumbnail and thumbnail_data' reads a name that was never bound
ThumbUnbound(d, addThumbnail) ==
    addThumbnail /\ d.data_access_url_ogc_wms = "absent"

Level2WithThumb(d, addThumbnail, thumb) ==
    IF addThumbnail /\ d.data_access_url_ogc_wms # "absent" /\ thumb
    THEN [d EXCEPT !.thumbnail_data = "data"]
    ELSE d

\* add_level2 up to the parent search: the record is prepared locally
add_level2_begin(p, addThumbnail, reply, thumb) ==
    /\ pc[p] = "transformed"
    /\ UNCHANGED <<store, linked, rec, myresults, calls>>
    /\ IF mydict[p].related_dataset.kind # "str"
       THEN \* myl2record['related_dataset'] raises KeyError
            /\ outcome' = [outcome EXCEPT ![p] = Raised("KeyError")]
            /\ pc' = [pc EXCEPT ![p] = "idle"]
            /\ ops' = [ops EXCEPT ![p] = << >>]
            /\ UNCHANGED <<mydict, myparid>>
       ELSE LET fixed == [mydict[p] EXCEPT
                            !.related_dataset = RdStr(NpiFix(@.str)),
                            !.isChild = "true"]
                feat == WithFeature(fixed, reply)
                final == Level2WithThumb(feat, addThumbnail, thumb)
            IN /\ mydict' = [mydict EXCEPT ![p] =
                                IF ThumbUnbound(feat, addThumbnail) THEN feat ELSE final]
               /\ ops' = [ops EXCEPT ![p] =
                     FeatureOps(fixed, reply) \o Level2ThumbOps(feat, addThumbnail, thumb)]
               /\ IF ThumbUnbound(feat, addThumbnail)
                  THEN /\ outcome' = [outcome EXCEPT ![p] = Raised("UnboundLocalError")]
                       /\ pc' = [pc EXCEPT ![p] = "idle"]
                       /\ UNCHANGED myparid
                  ELSE /\ outcome' = [outcome EXCEPT ![p] = NoOutcome]
                       /\ pc' = [pc EXCEPT ![p] = "l2_search"]
                       /\ myparid' = [myparid EXCEPT ![p] =
                                         SanitizeId(final.related_dataset.str)]

\* the parent search and the local update of the fetched parent; searchok says
\* whether self.solrc.search succeeds, internal which store-internal fields
\* the returned document carries
add_level2_search(p, searchok, internal) ==
    /\ pc[p] = "l2_search"
    /\ UNCHANGED <<store, linked, rec, mydict, myparid, calls>>
    /\ IF ~searchok
       THEN \* the exception is logged; len(myresults) then reads an unbound name
            /\ ops' = [ops EXCEPT ![p] = Append(@, Op("search", "none", FALSE, 0))]
            /\ outcome' = [outcome EXCEPT ![p] = Raised("UnboundLocalError")]
            /\ pc' = [pc EXCEPT ![p] = "idle"]
            /\ UNCHANGED myresults
       ELSE LET found == StoreSearch(store, myparid[p])
                n == Cardinality(found)
            IN /\ ops' = [ops EXCEPT ![p] = Append(@, Op("search", "none", TRUE, n))]
               /\ IF NotUnique(n)
                  THEN /\ outcome' = [outcome EXCEPT ![p] = Returned("None")]
                       /\ pc' = [pc EXCEPT ![p] = "idle"]
                       /\ UNCHANGED myresults
                  ELSE LET result == [(CHOOSE d \in found : TRUE) EXCEPT !.internal = internal]
                           stripped == StripInternal(result)
                           merged == MergeChild([stripped EXCEPT !.isParent = "true"],
                                                mydict[p])
                       IN IF ~ReboundToDoc(result)
                          THEN /\ outcome' = [outcome EXCEPT ![p] = Raised("TypeError")]
                               /\ pc' = [pc EXCEPT ![p] = "idle"]
                               /\ UNCHANGED myresults
                          ELSE IF merged.err # "none"
                               THEN /\ outcome' = [outcome EXCEPT ![p] = Raised(merged.err)]
                                    /\ pc' = [pc EXCEPT ![p] = "idle"]
                                    /\ UNCHANGED myresults
                               ELSE /\ myresults' = [myresults EXCEPT ![p] = merged.doc]
                                    /\ pc' = [pc EXCEPT ![p] = "l2_add_child"]
                                    /\ UNCHANGED outcome

\* a child add whose failure is only logged, so that the parent add follows
add_level2_child_swallow(p, addok) ==
    /\ pc[p] = "l2_add_child"
    /\ ops' = [ops EXCEPT ![p] = Append(@, Op("add", "child", addok, 0))]
    /\ UNCHANGED <<rec, mydict, myresults, myparid, calls, outcome>>
    /\ pc' = [pc EXCEPT ![p] = "l2_add_parent"]
    /\ IF addok
       THEN /\ store' = StoreAdd(store, mydict[p])
            /\ linked' = Unlink(linked, mydict[p].id)
       ELSE UNCHANGED <<store, linked>>

\* """ Index level 2 dataset """: self.solrc.add(mmd_record2)
add_level2_child(p, addok) ==
    /\ pc[p] = "l2_add_child"
    /\ ops' = [ops EXCEPT ![p] = Append(@, Op("add", "child", addok, 0))]
    /\ UNCHANGED <<rec, mydict, myresults, myparid, calls>>
    /\ IF addok
       THEN /\ store' = StoreAdd(store, mydict[p])
            /\ linked' = Unlink(linked, mydict[p].id)
            /\ pc' = [pc EXCEPT ![p] = "l2_add_parent"]
            /\ UNCHANGED outcome
       ELSE /\ outcome' = [outcome EXCEPT ![p] = Raised("Exception")]
            /\ pc' = [pc EXCEPT ![p] = "idle"]
            /\ UNCHANGED <<store, linked>>

\* """ Update level 1 record with id of this dataset """: self.solrc.add(mmd_record1)
add_level2_parent(p, addok) ==
    /\ pc[p] = "l2_add_parent"
    /\ ops' = [ops EXCEPT ![p] = Append(@, Op("add", "parent", addok, 0))]
    /\ pc' = [pc EXCEPT ![p] = "idle"]
    /\ UNCHANGED <<rec, mydict, myresults, myparid, calls>>
    /\ IF addok
       THEN /\ store' = StoreAdd(store, myresults[p])
            /\ linked' = Append(linked, [parent |-> myresults[p].id,
                                         child |-> ChildEntry(mydict[p]), by |-> p])
            /\ outcome' = [outcome EXCEPT ![p] = Returned("None")]
       ELSE /\ outcome' = [outcome EXCEPT ![p] = Raised("Exception")]
            /\ UNCHANGED <<store, linked>>

(***************************************************************************)
(* The MMD records ingested                                                *)
(***************************************************************************)

NoRelated == [shape |-> "absent", entries |-> << >>]
OneRelated(type, text) ==
    [shape |-> "dict",
     entries |-> << [relation_type |-> type, hastext |-> TRUE, text |-> text] >>]
NoExtent == [shape |-> "absent", rects |-> << >>]
OneRectangle(n, s, e, w) ==
    [shape |-> "dict",
     rects |-> << [north |-> n, south |-> s, east |-> e, west |-> w] >>]

Mmd(mid, status, related, extent, access) ==
    [metadata_identifier |-> mid, metadata_status |-> Plain(status),
     related_dataset |-> related, geographic_extent |-> extent,
     data_access |-> access]

\* a parent-level record
RecParent ==
    Mmd(Attributed(<<"n", ":", "p">>), "Active", NoRelated, NoExtent, << >>)
\* two children of it, one with OPeNDAP access
RecChildA ==
    Mmd(Plain(<<"n", ":", "a">>), "Active", OneRelated("parent", <<"n", ":", "p">>),
        NoExtent, <<"OPeNDAP">>)
RecChildB ==
    Mmd(Plain(<<"b", ".", "1">>), "Active",
        [shape |-> "list",
         entries |-> << [relation_type |-> "parent", hastext |-> TRUE,
                         text |-> <<"n", ":", "p">>],
                        [relation_type |-> "sibling", hastext |-> TRUE,
                         text |-> <<"n", ":", "a">>] >>],
        NoExtent, << >>)
\* a child with WMS access whose parent reference selects every stored document
RecWild ==
    Mmd(Plain(<<"w">>), "Active", OneRelated("parent", <<"*">>), NoExtent,
        <<"OGC WMS">>)
\* an inactive record with OPeNDAP and WMS access
RecInactive ==
    Mmd(Plain(<<"i">>), "Inactive", NoRelated, NoExtent, <<"OPeNDAP", "OGC WMS">>)
\* a record whose single rectangle has an empty east bound
RecNoEast ==
    Mmd(Plain(<<"g">>), "Active", NoRelated,
        OneRectangle(<<70>>, <<60>>, << >>, <<10>>), << >>)

Records == {RecParent, RecChildA, RecChildB, RecWild, RecInactive, RecNoEast}

(***************************************************************************)
(* The ingestion processes                                                 *)
(***************************************************************************)

\* MMD4SolR(file).tosolr(): the caller transforms a record before indexing it
Transform(p, r) ==
    /\ pc[p] = "idle"
    /\ calls < MaxCalls
    /\ calls' = calls + 1
    /\ rec' = [rec EXCEPT ![p] = r]
    /\ ops' = [ops EXCEPT ![p] = << >>]
    /\ myresults' = [myresults EXCEPT ![p] = NoDoc]
    /\ myparid' = [myparid EXCEPT ![p] = << >>]
    /\ UNCHANGED <<store, linked>>
    /\ IF tosolr(r).raised
       THEN /\ outcome' = [outcome EXCEPT ![p] = Raised(tosolr(r).err)]
            /\ mydict' = [mydict EXCEPT ![p] = NoDoc]
            /\ UNCHANGED pc
       ELSE /\ outcome' = [outcome EXCEPT ![p] = NoOutcome]
            /\ mydict' = [mydict EXCEPT ![p] = tosolr(r).doc]
            /\ pc' = [pc EXCEPT ![p] = "transformed"]

\* IndexMMD.__init__: nothing indexed by this run yet, the core is empty
Init ==
    /\ store = << >>
    /\ pc = [p \in Procs |-> "idle"]
    /\ rec = [p \in Procs |-> RecParent]
    /\ mydict = [p \in Procs |-> NoDoc]
    /\ myresults = [p \in Procs |-> NoDoc]
    /\ myparid = [p \in Procs |-> << >>]
    /\ ops = [p \in Procs |-> << >>]
    /\ outcome = [p \in Procs |-> NoOutcome]
    /\ linked = << >>
    /\ calls = 0

\* the core processes one record at a time: a run is the calls of one process
Main == "p1"

DoTransform == \E r \in Records : Transform(Main, r)
DoIndexRecord ==
    \E level \in Levels, addThumbnail \in BOOLEAN,
       reply \in FeatureRepliesFor(mydict[Main]), addok \in BOOLEAN :
        \E thumb \in ThumbRepliesFor(mydict[Main], addThumbnail) :
            index_record(Main, level, addThumbnail, reply, thumb, addok)
DoLevel2Begin ==
    \E addThumbnail \in BOOLEAN, reply \in FeatureRepliesFor(mydict[Main]) :
        \E thumb \in ThumbRepliesFor(mydict[Main], addThumbnail) :
            add_level2_begin(Main, addThumbnail, reply, thumb)
DoLevel2Search ==
    \E searchok \in BOOLEAN, internal \in InternalReplies :
        add_level2_search(Main, searchok, internal)
DoLevel2Child == \E addok \in BOOLEAN : add_level2_child(Main, addok)
DoLevel2Parent == \E addok \in BOOLEAN : add_level2_parent(Main, addok)

Next ==
    \/ DoTransform
    \/ DoIndexRecord
    \/ DoLevel2Begin
    \/ DoLevel2Search
    \/ DoLevel2Child
    \/ DoLevel2Parent

Spec == Init /\ [][Next]_vars

(***************************************************************************)
(* Two ingestion processes adding children of one parent to the same core  *)
(***************************************************************************)

\* the parent document as a previous run's index_record(level 1) left it
StoredParent == TagLevel(TosolrDoc(RecParent), "1")

Children == {RecChildA, RecChildB}

InitRace ==
    /\ store = StoreAdd(<< >>, StoredParent)
    /\ pc = [p \in Procs |-> "idle"]
    /\ rec = [p \in Procs |-> RecParent]
    /\ mydict = [p \in Procs |-> NoDoc]
    /\ myresults = [p \in Procs |-> NoDoc]
    /\ myparid = [p \in Procs |-> << >>]
    /\ ops = [p \in Procs |-> << >>]
    /\ outcome = [p \in Procs |-> NoOutcome]
    /\ linked = << >>
    /\ calls = 0

RaceTransform == \E p \in Procs, r \in Children : Transform(p, r)
RaceLevel2Begin ==
    \E p \in Procs, reply \in FeatureReplies :
        add_level2_begin(p, FALSE, reply, FALSE)
RaceLevel2Search ==
    \E p \in Procs, searchok \in BOOLEAN, internal \in InternalReplies :
        add_level2_search(p, searchok, internal)
RaceLevel2Child == \E p \in Procs, addok \in BOOLEAN : add_level2_child(p, addok)
RaceLevel2Parent == \E p \in Procs, addok \in BOOLEAN : add_level2_parent(p, addok)

NextRace ==
    \/ RaceTransform
    \/ RaceLevel2Begin
    \/ RaceLevel2Search
    \/ RaceLevel2Child
    \/ RaceLevel2Parent

SpecRace == InitRace /\ [][NextRace]_vars

(***************************************************************************)
(* One record drawn from a bounded space of MMD records, transformed and   *)
(* then indexed                                                            *)
(***************************************************************************)

\* identifiers are the strings over IdChars of length 1..MaxIdLen
MaxIdLen == 3
IdChars == {"a", ":", "/", ".", "-", "_"}

RECURSIVE StringsUpTo(_)
StringsUpTo(n) ==
    IF n = 0 THEN { << >> }
    ELSE LET shorter == StringsUpTo(n - 1)
         IN shorter \cup {Append(s, c) : s \in shorter, c \in IdChars}

Identifiers == StringsUpTo(MaxIdLen) \ { << >> }

\* a bound is empty (None) or one of two latitudes/longitudes
BoundValues == { << >>, <<60>>, <<70>> }

\* records that differ in their identifier, and records that differ in the
\* bounds of their single rectangle
IdRecords ==
    {Mmd(mid, "Active", NoRelated, NoExtent, << >>) :
        mid \in {Plain(i) : i \in Identifiers} \cup {Attributed(i) : i \in Identifiers}}
ExtentRecords ==
    {Mmd(Plain(<<"g">>), "Active", NoRelated, OneRectangle(n, s, e, w), << >>) :
        n \in BoundValues, s \in BoundValues, e \in BoundValues, w \in BoundValues}

\* records that differ in their related_dataset element(s): one entry or
\* several, each with a relation type (or none) and with or without text
RelatedEntries ==
    {[relation_type |-> type, hastext |-> h,
      text |-> IF type = "parent" THEN <<"n", ":", "p">> ELSE <<"n", ".", "s">>] :
        type \in {"parent", "sibling", "absent"}, h \in BOOLEAN}
RelatedRecords ==
    {Mmd(Plain(<<"g">>), "Active", [shape |-> "dict", entries |-> <<e>>],
         NoExtent, << >>) : e \in RelatedEntries}
    \cup
    {Mmd(Plain(<<"g">>), "Active", [shape |-> "list", entries |-> <<e, f>>],
         NoExtent, << >>) : e \in RelatedEntries, f \in RelatedEntries}

TosolrInputs == IdRecords \cup ExtentRecords \cup RelatedRecords

InitTosolr ==
    /\ store = << >>
    /\ pc = [p \in Procs |-> "idle"]
    /\ rec \in {[p \in Procs |-> r] : r \in TosolrInputs}
    /\ mydict = [p \in Procs |-> NoDoc]
    /\ myresults = [p \in Procs |-> NoDoc]
    /\ myparid = [p \in Procs |-> << >>]
    /\ ops = [p \in Procs |-> << >>]
    /\ outcome = [p \in Procs |-> NoOutcome]
    /\ linked = << >>
    /\ calls = 0

TransformGiven == calls = 0 /\ Transform(Main, rec[Main])
IndexGiven ==
    \E level \in Levels, addok \in BOOLEAN :
        index_record(Main, level, FALSE, "fail", FALSE, addok)
Level2Given == add_level2_begin(Main, FALSE, "fail", FALSE)

NextTosolr ==
    \/ TransformGiven
    \/ IndexGiven
    \/ Level2Given

SpecTosolr == InitTosolr /\ [][NextTosolr]_vars

(***************************************************************************)
(* MMD4SolR.check_mmd                                                      *)
(***************************************************************************)

\* the literal 'Unknown'
Unknown == <<"U", "n", "k", "n", "o", "w", "n">>

\* an element that is not in the record, and an empty element (parsed as None)
Missing == [shape |-> "absent", text |-> << >>]
Empty == [shape |-> "none", text |-> << >>]

\* the keys of mmd_requirements, in dictionary order
mmd_requirements ==
    << "metadata_version", "metadata_identifier", "title", "abstract",
       "metadata_status", "dataset_production_status", "collection",
       "last_metadata_update", "iso_topic_category", "keywords" >>

RequiredFields == {mmd_requirements[i] : i \in 1..Len(mmd_requirements)}

\* a title or abstract element with a language attribute ("absent": none)
Localized(lang, s) == [shape |-> "dict", lang |-> lang, text |-> s]

\* one mmd:keywords element: a dict with or without '@vocabulary', whose
\* mmd:keyword is a string (kwshape "str", one item), a list of items, None
\* ("none") or not there ("absent"); the item "none" is a None in a list
KeywordGroup(vocabulary, kwshape, keyword) ==
    [shape |-> "dict", vocabulary |-> vocabulary, kwshape |-> kwshape,
     keyword |-> keyword]
\* an element with one keyword
KeywordSet(vocabulary) == KeywordGroup(vocabulary, "str", <<"k">>)
\* repeated mmd:keywords elements
KeywordSets(vs) ==
    [shape |-> "list", entries |-> [i \in 1..Len(vs) |-> KeywordSet(vs[i])]]

\* one mmd:update element; note may be "absent"
Update(datetime, type, note) == [datetime |-> datetime, type |-> type, note |-> note]
\* mmd:last_metadata_update with one mmd:update (a dict) or several (a list)
LastUpdate(shape, updates) == [shape |-> "dict", update |-> shape, entries |-> updates]

\* the timestamps of the records, without and with the UTC marker
Dates == { <<"2", "0", "2", "0">>, <<"2", "0", "2", "1">> }
EndsWithZ(s) == Len(s) > 0 /\ s[Len(s)] = "Z"
\* myel + 'Z' unless it ends with 'Z'
WithZ(s) == IF EndsWithZ(s) THEN s ELSE Append(s, "Z")
\* does dateutil.parser.parse accept the string
Parses(s) == s \in Dates \/ s \in {Append(d, "Z") : d \in Dates}

\* the first loop: a required element that is present but None becomes
\* 'Unknown'; an element that is not in the record is not looked at
Requirements(d) ==
    [f \in DOMAIN d |->
        IF f \in RequiredFields /\ d[f].shape = "none"
        THEN Plain(Unknown) ELSE d[f]]

\* str(...).upper() of the vocabulary attribute
Upper(v) == IF v = "gcmdsk" THEN "GCMDSK" ELSE v

\* the GCMD scan of repeated keywords: stops at the first GCMDSK entry;
\* reading '@vocabulary' of an entry that has none raises KeyError
RECURSIVE GcmdScan(_)
GcmdScan(es) ==
    IF es = << >> THEN "ok"
    ELSE IF Head(es).vocabulary = "absent" THEN "KeyError"
    ELSE IF Upper(Head(es).vocabulary) = "GCMDSK" THEN "ok"
    ELSE GcmdScan(Tail(es))

\* "Check that keywords also contain GCMD keywords": "ok" or the exception
KeywordsCheck(k) ==
    CASE k.shape = "absent" -> "KeyError"
      [] k.shape = "list" -> GcmdScan(k.entries)
      [] k.shape = "dict" -> IF k.vocabulary = "absent" THEN "KeyError" ELSE "ok"
      [] OTHER -> "TypeError"

\* the order of the characters that occur in timestamps
Ord(c) == CASE c = "0" -> 0 [] c = "1" -> 1 [] c = "2" -> 2 [] OTHER -> 9

\* the string comparison a > b
RECURSIVE StrGreater(_, _)
StrGreater(a, b) ==
    IF a = << >> THEN FALSE
    ELSE IF b = << >> THEN TRUE
    ELSE IF Ord(Head(a)) # Ord(Head(b)) THEN Ord(Head(a)) > Ord(Head(b))
    ELSE StrGreater(Tail(a), Tail(b))

\* the loop over several updates: the greatest datetime above the start value
RECURSIVE LatestUpdate(_, _)
LatestUpdate(us, myvalue) ==
    IF us = << >> THEN myvalue
    ELSE LatestUpdate(Tail(us),
            IF StrGreater(Head(us).datetime, myvalue)
            THEN Head(us).datetime ELSE myvalue)

\* "Modify dates if necessary": the string handed to dateutil.parser.parse
LastUpdateValue(l) ==
    IF l.shape = "dict"
    THEN IF l.update = "list"
         THEN LatestUpdate(l.entries, <<"0", "0", "0", "0">>)
         ELSE WithZ(l.entries[1].datetime)
    ELSE WithZ(l.text)

\* "ok" or the exception of the last_metadata_update block
LastUpdateCheck(l) ==
    IF l.shape = "absent" THEN "ok"
    ELSE IF Parses(LastUpdateValue(l)) THEN "ok" ELSE "ParserError"

\* the value of mmd:start_date or mmd:end_date: None (an empty element), the
\* strings '--' and '', a key that the element does not have, or a timestamp
\* of a year, written as a date ('2000-01-01') or as '2000-01-01T00:00:00Z'
TimeNone == [kind |-> "none", year |-> 0]
TimeDashes == [kind |-> "--", year |-> 0]
TimeEmpty == [kind |-> "", year |-> 0]
TimeAbsent == [kind |-> "absent", year |-> 0]
Time(form, year) == [kind |-> form, year |-> year]

\* one mmd:temporal_extent element, and the element(s) of a record
Period(start, end) == [start_date |-> start, end_date |-> end]
NoTemporal == [shape |-> "absent", items |-> << >>]
OnePeriod(item) == [shape |-> "dict", items |-> <<item>>]
Periods(items) == [shape |-> "list", items |-> items]

\* the keys of a temporal_extent element, in document order
TemporalKeys == <<"start_date", "end_date">>

\* None and '--' become '', anything else is parsed and written with
\* strftime('%Y-%m-%dT%H:%M:%SZ'); '' is not a date for dateutil and stays
CheckedTime(v) ==
    CASE v.kind \in {"none", "--"} -> TimeEmpty
      [] v.kind \in {"absent", ""} -> v
      [] OTHER -> Time("utc", v.year)

\* the temporal_extent block: the element as it is left
TemporalChecked(t) ==
    [t EXCEPT !.items =
        [i \in 1..Len(t.items) |->
            [k \in DOMAIN t.items[i] |-> CheckedTime(t.items[i][k])]]]

\* "ok" or the exception of the block: the parse is guarded by try/except
\* for a single element only
TemporalCheck(t) ==
    IF /\ t.shape = "list"
       /\ \E i \in 1..Len(t.items) : \E k \in DOMAIN t.items[i] : t.items[i][k].kind = ""
    THEN "ParserError" ELSE "ok"

\* check_mmd on the record d: the record as the call leaves it, and how it ends.
\* The controlled-vocabulary loop between the first loop and the keyword check
\* only logs for elements that are strings, dicts with '#text' or lists of these.
check_mmd(d) ==
    LET checked == Requirements(d)
        kw == KeywordsCheck(checked.keywords)
        lmu == LastUpdateCheck(checked.last_metadata_update)
        te == TemporalCheck(checked.temporal_extent)
    IN IF kw # "ok" THEN [raised |-> TRUE, err |-> kw, doc |-> checked]
       ELSE IF lmu # "ok" THEN [raised |-> TRUE, err |-> lmu, doc |-> checked]
       ELSE IF te # "ok" THEN [raised |-> TRUE, err |-> te, doc |-> checked]
       ELSE [raised |-> FALSE, err |-> "none",
             doc |-> [checked EXCEPT !.temporal_extent = TemporalChecked(@)]]

(***************************************************************************)
(* MMD4SolR.tosolr: the descriptive parts of the transformation            *)
(***************************************************************************)

\* a key of mydict that was not set / that holds the string s
Unset == [present |-> FALSE, text |-> << >>]
Set(s) == [present |-> TRUE, text |-> s]

\* the first exception of a sequence of steps ("none": no step raises)
RECURSIVE FirstError(_)
FirstError(errs) ==
    IF errs = << >> THEN "none"
    ELSE IF Head(errs) # "none" THEN Head(errs)
    ELSE FirstError(Tail(errs))

\* """ Identifier """ reads the element without testing for it
IdentifierError(r) ==
    CASE r.metadata_identifier.shape = "absent" -> "KeyError"
      [] r.metadata_identifier.shape = "none" -> "AttributeError"
      [] OTHER -> "none"

\* the update entries in a list, whatever the shape of mmd:update
Updates(l) == l.entries

\* """ Last metadata update """: lmu_datetime with the 'Z' appended
LmuDatetime(l) == [i \in 1..Len(Updates(l)) |-> WithZ(Updates(l)[i].datetime)]
LmuType(l) == [i \in 1..Len(Updates(l)) |-> Updates(l)[i].type]

\* the notes of the updates that have one, in order
RECURSIVE NotesPresent(_)
NotesPresent(us) ==
    IF us = << >> THEN << >>
    ELSE IF Head(us).note # "absent"
         THEN <<Head(us).note>> \o NotesPresent(Tail(us))
         ELSE NotesPresent(Tail(us))

\* lmu_note: the single update's note is read without a test, the notes of
\* several updates are appended only where the update has one
LmuNote(l) ==
    IF l.update = "dict" THEN << Updates(l)[1].note >> ELSE NotesPresent(Updates(l))

\* what the last_metadata_update block raises
LmuError(r) ==
    LET l == r.last_metadata_update IN
    CASE l.shape = "absent" -> "none"
      [] l.shape \in {"str", "none"} -> "TypeError"
      [] l.update = "dict" /\ Updates(l)[1].note = "absent" -> "KeyError"
      [] OTHER -> "none"

\* """ Metadata status """ reads the element without testing for it
MetadataStatusError(r) ==
    IF r.metadata_status.shape = "absent" THEN "KeyError" ELSE "none"

\* the text of the last entry with language 'en' (entries without a language
\* attribute are passed over)
RECURSIVE EnglishOf(_, _)
EnglishOf(es, acc) ==
    IF es = << >> THEN acc
    ELSE EnglishOf(Tail(es),
            IF Head(es).shape = "dict" /\ Head(es).lang = "en"
            THEN Set(Head(es).text) ELSE acc)

\* """ title """ and """ abstract """: the value set for the element e
LocalizedValue(e) ==
    CASE e.shape = "list" -> EnglishOf(e.entries, Unset)
      [] e.shape = "dict" -> IF e.lang = "en" THEN Set(e.text) ELSE Unset
      [] e.shape = "none" -> Set(<<"N", "o", "n", "e">>)
      [] OTHER -> Set(e.text)

\* title and abstract are read without testing for them
LocalizedError(e) == IF e.shape = "absent" THEN "KeyError" ELSE "none"

\* the keyword lists of mydict, and one keyword appended to them:
\* keywords_gcmd gets it if the vocabulary is the string 'GCMDSK'
NoKeywords == [keyword |-> << >>, vocabulary |-> << >>, gcmd |-> << >>]
AppendKeyword(acc, vocabulary, k) ==
    [keyword |-> Append(acc.keyword, k),
     vocabulary |-> Append(acc.vocabulary, vocabulary),
     gcmd |-> IF vocabulary = "GCMDSK" THEN Append(acc.gcmd, k) ELSE acc.gcmd]

\* the loop over the items of one mmd:keyword list; strOnly: the loop of a
\* single keywords element takes only the items that are strings
RECURSIVE AppendKeywords(_, _, _, _)
AppendKeywords(acc, vocabulary, ks, strOnly) ==
    IF ks = << >> THEN acc
    ELSE AppendKeywords(
            IF strOnly /\ Head(ks) = "none" THEN acc
            ELSE AppendKeyword(acc, vocabulary, Head(ks)),
            vocabulary, Tail(ks), strOnly)

\* len(...) of a keywords element in a list of them
KeyCount(g) ==
    (IF g.vocabulary # "absent" THEN 1 ELSE 0) + (IF g.kwshape # "absent" THEN 1 ELSE 0)

\* "If there are multiple keyword lists": elements with fewer than two keys
\* are passed over
RECURSIVE KeywordsOfGroups(_, _)
KeywordsOfGroups(gs, acc) ==
    IF gs = << >> THEN acc
    ELSE LET g == Head(gs) IN
         KeywordsOfGroups(Tail(gs),
            IF KeyCount(g) < 2 THEN acc
            ELSE IF g.kwshape = "list"
                 THEN AppendKeywords(acc, g.vocabulary, g.keyword, FALSE)
                 ELSE AppendKeyword(acc, g.vocabulary,
                                    IF g.kwshape = "none" THEN "none" ELSE g.keyword[1]))

\* """ Keywords """: keywords_keyword, keywords_vocabulary and keywords_gcmd
TosolrKeywords(r) ==
    CASE r.keywords.shape = "dict" ->
            IF r.keywords.kwshape = "str"
            THEN AppendKeyword(NoKeywords, r.keywords.vocabulary, r.keywords.keyword[1])
            ELSE AppendKeywords(NoKeywords, r.keywords.vocabulary, r.keywords.keyword, TRUE)
      [] r.keywords.shape = "list" -> KeywordsOfGroups(r.keywords.entries, NoKeywords)
      [] OTHER -> NoKeywords

\* what the block raises: a keywords element that is a string is subscripted;
\* a single element is read without testing for its keys
KeywordsError(r) ==
    LET k == r.keywords IN
    CASE k.shape \in {"str", "none"} -> "TypeError"
      [] k.shape = "dict" ->
            CASE k.kwshape = "absent" -> "KeyError"
              [] k.kwshape = "none" -> "TypeError"
              [] k.vocabulary = "absent"
                 /\ \E i \in 1..Len(k.keyword) : k.keyword[i] # "none" -> "KeyError"
              [] OTHER -> "none"
      [] OTHER -> "none"

\* the years of maxtime and mintime before the loop over the elements
MaxtimeSeed == 1000
MintimeSeed == 2099

\* a temporal key of mydict: not set, or a timestamp as a string, or the
\* one-element tuple that the trailing comma of the assignment makes
NoDate == [present |-> FALSE, tuple |-> FALSE, value |-> TimeAbsent]
DateString(v) == [present |-> TRUE, tuple |-> FALSE, value |-> v]
DateTuple(v) == [present |-> TRUE, tuple |-> TRUE, value |-> v]

\* "for item ...: for mykey in item": the values the loops visit, in order
RECURSIVE TemporalValues(_)
TemporalValues(items) ==
    IF items = << >> THEN << >>
    ELSE SelectSeq([k \in 1..Len(TemporalKeys) |-> Head(items)[TemporalKeys[k]]],
                   LAMBDA v : v.kind # "absent")
         \o TemporalValues(Tail(items))

\* the loop body: mytime is assigned only for a value other than '' and is
\* compared in every pass; mytime = << >> is the name before its first
\* assignment, and reading it then raises UnboundLocalError
RECURSIVE TemporalScan(_, _, _, _)
TemporalScan(vals, mytime, mintime, maxtime) ==
    IF vals = << >>
    THEN [err |-> "none", mintime |-> mintime, maxtime |-> maxtime]
    ELSE LET t == IF Head(vals).kind # "" THEN <<Head(vals).year>> ELSE mytime IN
         IF t = << >>
         THEN [err |-> "UnboundLocalError", mintime |-> mintime, maxtime |-> maxtime]
         ELSE TemporalScan(Tail(vals), t,
                           IF t[1] < mintime THEN t[1] ELSE mintime,
                           IF t[1] > maxtime THEN t[1] ELSE maxtime)

TemporalReduced(t) ==
    TemporalScan(TemporalValues(t.items), << >>, MintimeSeed, MaxtimeSeed)

\* """ Temporal extent """
TosolrTemporal(r) ==
    LET t == r.temporal_extent IN
    CASE t.shape = "list" ->
            [start_date |-> DateString(Time("utc", TemporalReduced(t).mintime)),
             end_date |-> DateString(Time("utc", TemporalReduced(t).maxtime))]
      [] t.shape = "dict" ->
            [start_date |-> DateTuple(t.items[1].start_date),
             end_date |-> IF t.items[1].end_date.kind \notin {"absent", "none"}
                          THEN DateTuple(t.items[1].end_date) ELSE NoDate]
      [] OTHER -> [start_date |-> NoDate, end_date |-> NoDate]

\* what the block raises
TemporalError(r) ==
    LET t == r.temporal_extent IN
    CASE t.shape = "list" -> TemporalReduced(t).err
      [] t.shape = "dict" ->
            IF t.items[1].start_date.kind = "absent" THEN "KeyError" ELSE "none"
      [] OTHER -> "none"

\* one mmd:use_constraint element: a dict whose sub-elements are "absent",
\* "none" (an empty element) or a text; a string; None; or not in the record
UseConstraint(identifier, resource, license_text) ==
    [shape |-> "dict", identifier |-> identifier, resource |-> resource,
     license_text |-> license_text]
UseConstraintText ==
    [shape |-> "str", identifier |-> "absent", resource |-> "absent",
     license_text |-> "absent"]
NullUseConstraint == [UseConstraintText EXCEPT !.shape = "none"]
NoUseConstraint == [UseConstraintText EXCEPT !.shape = "absent"]

\* str(...) of a sub-element
Str(v) == IF v = "none" THEN Set(<<"None">>) ELSE Set(<<v>>)
NotProvided == Set(<<"Not provided">>)

\* a block that copies each of the two sub-elements on its own
UseConstraintEach(u) ==
    IF u.shape \in {"absent", "none"}
    THEN [identifier |-> Unset, resource |-> Unset, license_text |-> Unset]
    ELSE [identifier |-> IF u.identifier # "absent" THEN Str(u.identifier) ELSE NotProvided,
          resource |-> IF u.resource # "absent" THEN Str(u.resource) ELSE NotProvided,
          license_text |-> IF u.license_text # "absent"
                           THEN Str(u.license_text) ELSE Unset]

\* """ Use constraint """: identifier and resource are copied only if the
\* element has both, else both are 'Not provided'; 'in' on a string finds
\* no sub-element
TosolrUseConstraint(u) ==
    IF u.shape \in {"absent", "none"}
    THEN [identifier |-> Unset, resource |-> Unset, license_text |-> Unset]
    ELSE [identifier |-> IF u.identifier # "absent" /\ u.resource # "absent"
                         THEN Str(u.identifier) ELSE NotProvided,
          resource |-> IF u.identifier # "absent" /\ u.resource # "absent"
                       THEN Str(u.resource) ELSE NotProvided,
          license_text |-> IF u.license_text # "absent"
                           THEN Str(u.license_text) ELSE Unset]

\* personnel_role_LUT
personnel_role_LUT ==
    [r \in {"Investigator", "Technical contact", "Metadata author",
            "Data center contact"} |->
        CASE r = "Investigator" -> "investigator"
          [] r = "Technical contact" -> "technical"
          [] r = "Metadata author" -> "metadata_author"
          [] OTHER -> "datacenter"]

RoleCodes == {personnel_role_LUT[r] : r \in DOMAIN personnel_role_LUT}

\* the sub-elements of mmd:personnel that the records carry
PersonnelSubs == {"role", "name", "email"}
\* the sub-elements that are also appended to the unqualified facet lists
PersonnelFacets == {"role", "name"}

\* one mmd:personnel element; role may be "none" (empty), name and email "absent"
Person(role, name, email) == [role |-> role, name |-> name, email |-> email]

\* "Fix role based lists": every list starts empty
NoPersonnel ==
    [qualified |-> [c \in RoleCodes |-> [e \in PersonnelSubs |-> << >>]],
     facet |-> [e \in PersonnelFacets |-> << >>]]

\* "for entry in personnel": each sub-element that the entry has is appended
\* to the list of its role, role and name also to the unqualified list
AppendPerson(acc, person) ==
    LET code == personnel_role_LUT[person.role] IN
    [qualified |-> [c \in RoleCodes |-> [e \in PersonnelSubs |->
                        IF c = code /\ person[e] # "absent"
                        THEN Append(acc.qualified[c][e], person[e])
                        ELSE acc.qualified[c][e]]],
     facet |-> [e \in PersonnelFacets |->
                        IF person[e] # "absent"
                        THEN Append(acc.facet[e], person[e])
                        ELSE acc.facet[e]]]

\* "Fill lists with information": an empty or unknown role ends the loop
RECURSIVE FillPersonnel(_, _)
FillPersonnel(ps, acc) ==
    IF ps = << >> THEN acc
    ELSE IF Head(ps).role = "none" THEN acc
    ELSE IF Head(ps).role \notin DOMAIN personnel_role_LUT THEN acc
    ELSE FillPersonnel(Tail(ps), AppendPerson(acc, Head(ps)))

\* """ Personnel """
TosolrPersonnel(r) == FillPersonnel(r.personnel, NoPersonnel)

\* the sub-elements of mmd:data_center and of mmd:platform that the records
\* carry, named as the keys of mydict they are appended to
DataCenterSubs == {"data_center_short_name", "data_center_long_name", "data_center_url"}
PlatformSubs == {"platform_short_name", "platform_long_name", "platform_instrument_short_name"}

\* """ Data center """ and """ Platform """: for each element in turn, each
\* sub-element it has is appended to the list of that key
RECURSIVE FillGroup(_, _)
FillGroup(elements, acc) ==
    IF elements = << >> THEN acc
    ELSE LET el == Head(elements) IN
         FillGroup(Tail(elements),
            [k \in DOMAIN acc |->
                IF el[k] # "absent" THEN Append(acc[k], el[k]) ELSE acc[k]])

TosolrDataCenter(r) == FillGroup(r.data_center, [k \in DataCenterSubs |-> << >>])
TosolrPlatform(r) == FillGroup(r.platform, [k \in PlatformSubs |-> << >>])

\* "Add platform_sentinel for NBS": mydict['platform_long_name'][0] is read
\* after each platform element
RECURSIVE PlatformError(_, _)
PlatformError(elements, seen) ==
    IF elements = << >> THEN "none"
    ELSE IF ~seen /\ Head(elements)["platform_long_name"] = "absent" THEN "KeyError"
    ELSE PlatformError(Tail(elements), TRUE)

\* several mmd:geographic_extent elements
Rectangles(rs) == [shape |-> "list", rects |-> rs]
\* an empty mmd:geographic_extent element (parsed as None)
NullExtent == [shape |-> "none", rects |-> << >>]

\* the values of polygon_rpt (well-known text of a point or of a box) and bbox
NoGeometry == [kind |-> "absent", coords |-> << >>]
PointWkt(x, y) == [kind |-> "point", coords |-> <<x, y>>]
BoxWkt(minx, miny, maxx, maxy) ==
    [kind |-> "polygon", coords |-> <<minx, miny, maxx, maxy>>]
Envelope(a, b, c, d) == <<"ENVELOPE", a, b, c, d>>

\* the geographic keys of mydict when none is set
NoGeographic ==
    [north |-> << >>, south |-> << >>, east |-> << >>, west |-> << >>,
     bbox |-> << >>, polygon_rpt |-> NoGeometry]

SetMax(S) == CHOOSE x \in S : \A y \in S : y <= x
SetMin(S) == CHOOSE x \in S : \A y \in S : x <= y

\* the bounds with the keys ks that are not None, over all rectangles
BoundsOf(rs, ks) ==
    {rs[p[1]][p[2]][1] :
        p \in {q \in (1..Len(rs)) \X ks : rs[q[1]][q[2]] # << >>}}

\* latvals and lonvals
Latvals(rs) == BoundsOf(rs, {"north", "south"})
Lonvals(rs) == BoundsOf(rs, {"east", "west"})

\* "Check if we have a point or a boundingbox" for one rectangle: a point if
\* north = south and east = west, nothing if north = south only, else the box
PointOrBox(e, boxed) ==
    IF e.north = e.south
    THEN IF e.east = e.west THEN PointWkt(e.east[1], e.north[1]) ELSE NoGeometry
    ELSE boxed

\* one rectangle, all four bounds given: the bounds as they are, the envelope
\* in the order west, east, north, south, and the point or box
SingleRectangle(e) ==
    [north |-> e.north, south |-> e.south, east |-> e.east, west |-> e.west,
     bbox |-> Envelope(e.west[1], e.east[1], e.north[1], e.south[1]),
     polygon_rpt |-> PointOrBox(e,
         BoxWkt(e.west[1], e.south[1], e.east[1], e.north[1]))]

\* several rectangles: the extremes of latvals and lonvals; the point-or-box
\* test reads the loop variable e, which is the last rectangle
SeveralRectangles(rs) ==
    IF Latvals(rs) # {} /\ Lonvals(rs) # {}
    THEN [north |-> <<SetMax(Latvals(rs))>>, south |-> <<SetMin(Latvals(rs))>>,
          east |-> <<SetMax(Lonvals(rs))>>, west |-> <<SetMin(Lonvals(rs))>>,
          bbox |-> Envelope(SetMin(Lonvals(rs)), SetMax(Lonvals(rs)),
                            SetMax(Latvals(rs)), SetMin(Latvals(rs))),
          polygon_rpt |-> PointOrBox(rs[Len(rs)],
              BoxWkt(SetMin(Lonvals(rs)), SetMin(Latvals(rs)),
                     SetMax(Lonvals(rs)), SetMax(Latvals(rs))))]
    ELSE [north |-> <<90>>, south |-> <<-90>>, east |-> <<180>>, west |-> <<-180>>,
          bbox |-> << >>, polygon_rpt |-> NoGeometry]

\* """ Geographical extent """: an element that is absent or None sets no key
TosolrGeographic(r) ==
    CASE r.geographic_extent.shape = "list" -> SeveralRectangles(r.geographic_extent.rects)
      [] r.geographic_extent.shape = "dict" -> SingleRectangle(r.geographic_extent.rects[1])
      [] OTHER -> NoGeographic

\* what the block raises: the Warning for a single rectangle with a None
\* bound, TypeError when float() is given a None bound of the last rectangle
GeographicError(r) ==
    LET g == r.geographic_extent
        e == g.rects[Len(g.rects)]
    IN CASE g.shape = "dict" ->
                IF MissingSpatialBounds(r) THEN "Missing spatial bounds" ELSE "none"
         [] g.shape = "list" ->
                IF Latvals(g.rects) = {} \/ Lonvals(g.rects) = {} THEN "none"
                ELSE IF e.north = << >> \/ e.south = << >> THEN "TypeError"
                ELSE IF e.north = e.south /\ (e.east = << >> \/ e.west = << >>)
                     THEN "TypeError"
                ELSE "none"
         [] OTHER -> "none"

\* the first exception tosolr raises on the record r, in the order of its blocks
TosolrError(r) ==
    FirstError(<< IdentifierError(r), LmuError(r), MetadataStatusError(r),
                  LocalizedError(r.title), LocalizedError(r.abstract),
                  TemporalError(r), GeographicError(r), KeywordsError(r),
                  PlatformError(r.platform, FALSE) >>)

\* the descriptive keys of the document tosolr returns for the record r
TosolrFields(r) ==
    [id |-> TosolrId(r),
     metadata_identifier |-> TosolrMetadataIdentifier(r),
     title |-> LocalizedValue(r.title),
     abstract |-> LocalizedValue(r.abstract),
     temporal_extent_start_date |-> TosolrTemporal(r).start_date,
     temporal_extent_end_date |-> TosolrTemporal(r).end_date,
     last_metadata_update_datetime |->
        IF r.last_metadata_update.shape = "absent" THEN << >>
        ELSE LmuDatetime(r.last_metadata_update),
     last_metadata_update_type |->
        IF r.last_metadata_update.shape = "absent" THEN << >>
        ELSE LmuType(r.last_metadata_update),
     last_metadata_update_note |->
        IF r.last_metadata_update.shape = "absent" THEN << >>
        ELSE LmuNote(r.last_metadata_update),
     geographic |-> TosolrGeographic(r),
     keywords |-> TosolrKeywords(r),
     use_constraint |-> TosolrUseConstraint(r.use_constraint),
     personnel |-> TosolrPersonnel(r),
     data_center |-> TosolrDataCenter(r),
     platform |-> TosolrPlatform(r)]

(***************************************************************************)
(* One record drawn from a bounded space of MMD records, checked and then  *)
(* transformed                                                             *)
(***************************************************************************)

\* how many required elements of a record are absent or empty
MaxMissing == 2
\* how many personnel, data_center and platform elements a record has
MaxGroup == 2
\* how many geographic_extent elements a record with several of them has
MaxRects == 2

\* a complete record: every required element present, one update, no optional group
CompleteMmd ==
    [metadata_version |-> Plain(<<"1">>),
     metadata_identifier |-> Plain(<<"n", ":", "c">>),
     title |-> Plain(<<"t">>),
     abstract |-> Plain(<<"a">>),
     metadata_status |-> Plain("Active"),
     dataset_production_status |-> Plain(<<"C">>),
     collection |-> Plain(<<"A", "D", "C">>),
     last_metadata_update |->
        LastUpdate("dict", << Update(<<"2", "0", "2", "0">>, "Created", "n1") >>),
     iso_topic_category |-> Plain(<<"o">>),
     keywords |-> KeywordSet("GCMDSK"),
     temporal_extent |-> NoTemporal,
     geographic_extent |-> NoExtent,
     use_constraint |-> NoUseConstraint,
     personnel |-> << >>,
     data_center |-> << >>,
     platform |-> << >>]

\* the sequences over S of length lo..hi
SeqsOver(S, lo, hi) == UNION {[1..k -> S] : k \in lo..hi}

\* the shapes a present title, keywords and last_metadata_update element takes
TitleShapes ==
    {Plain(<<"t">>), Localized("en", <<"t">>), Localized("absent", <<"t">>),
     [shape |-> "list",
      entries |-> <<Localized("en", <<"t">>), Localized("no", <<"n">>)>>]}
KeywordShapes ==
    {KeywordSet("GCMDSK"), KeywordSet("CFSTDN"), KeywordSet("absent"),
     KeywordSets(<<"CFSTDN", "gcmdsk">>), KeywordSets(<<"absent", "GCMDSK">>)}
LastUpdateShapes ==
    {Plain(<<"2", "0", "2", "0">>), CompleteMmd.last_metadata_update}

\* records in which up to MaxMissing required elements are absent or empty
MissingRecords ==
    UNION {
        {[f \in DOMAIN CompleteMmd |->
            IF f \in S THEN IF f \in A THEN Missing ELSE Empty
            ELSE CompleteMmd[f]] : A \in SUBSET S} :
        S \in {T \in SUBSET RequiredFields : Cardinality(T) <= MaxMissing}}

\* complete records that differ in the shapes of these three elements
ShapeRecords ==
    {[CompleteMmd EXCEPT !.title = t, !.keywords = k, !.last_metadata_update = l] :
        t \in TitleShapes, k \in KeywordShapes, l \in LastUpdateShapes}

\* records that differ in their updates: one (a dict) or several (a list)
UpdateEntries ==
    {Update(d, "Created", n) :
        d \in {<<"2", "0", "2", "0">>, <<"2", "0", "2", "1", "Z">>},
        n \in {"n1", "absent"}}
UpdateRecords ==
    {[CompleteMmd EXCEPT !.last_metadata_update =
            LastUpdate(IF Len(us) = 1 THEN "dict" ELSE "list", us)] :
        us \in SeqsOver(UpdateEntries, 1, MaxGroup)}

\* records that differ in their personnel, data centers and platforms
Persons ==
    {Person(role, name, email) :
        role \in {"Investigator", "Technical contact", "Principal", "none"},
        name \in {"N", "absent"}, email \in {"E", "absent"}}
PersonnelRecords ==
    {[CompleteMmd EXCEPT !.personnel = ps] : ps \in SeqsOver(Persons, 1, MaxGroup)}
DataCenterRecords ==
    {[CompleteMmd EXCEPT !.data_center = ds] :
        ds \in SeqsOver([DataCenterSubs -> {"x", "absent"}], 1, MaxGroup)}
PlatformRecords ==
    {[CompleteMmd EXCEPT !.platform = ps] :
        ps \in SeqsOver([PlatformSubs -> {"x", "absent"}], 1, MaxGroup)}

\* records with one rectangle over BoundValues, records with several
\* rectangles out of: two boxes, a point, a line, and boxes with empty bounds,
\* and a record with an empty geographic_extent element
SomeRectangles ==
    { [north |-> <<70>>, south |-> <<60>>, east |-> <<20>>, west |-> <<10>>],
      [north |-> <<80>>, south |-> <<65>>, east |-> <<25>>, west |-> <<5>>],
      [north |-> <<60>>, south |-> <<60>>, east |-> <<10>>, west |-> <<10>>],
      [north |-> <<60>>, south |-> <<60>>, east |-> <<20>>, west |-> <<10>>],
      [north |-> << >>, south |-> <<60>>, east |-> <<20>>, west |-> <<10>>],
      [north |-> << >>, south |-> << >>, east |-> << >>, west |-> << >>] }
RectangleRecords ==
    {[CompleteMmd EXCEPT !.geographic_extent = OneRectangle(n, s, e, w)] :
        n \in BoundValues, s \in BoundValues, e \in BoundValues, w \in BoundValues}
    \cup
    {[CompleteMmd EXCEPT !.geographic_extent = Rectangles(rs)] :
        rs \in SeqsOver(SomeRectangles, 2, MaxRects)}
    \cup
    {[CompleteMmd EXCEPT !.geographic_extent = NullExtent]}

\* records with one temporal_extent element, and records with several
\* elements out of: periods before and after the year 2099, periods with an
\* empty start or end, and a period without end_date
SomePeriods ==
    { Period(Time("date", 2000), Time("date", 2010)),
      Period(Time("utc", 2100), Time("utc", 2110)),
      Period(TimeNone, Time("date", 2010)),
      Period(Time("date", 2000), TimeNone),
      Period(TimeDashes, TimeNone),
      Period(Time("date", 2005), TimeAbsent) }
TemporalRecords ==
    {[CompleteMmd EXCEPT !.temporal_extent = OnePeriod(item)] : item \in SomePeriods}
    \cup
    {[CompleteMmd EXCEPT !.temporal_extent = Periods(items)] :
        items \in SeqsOver(SomePeriods, 2, MaxGroup)}

\* records that differ in their use_constraint element
UseConstraintRecords ==
    {[CompleteMmd EXCEPT !.use_constraint = UseConstraint(i, r, l)] :
        i \in {"absent", "none", "CC-BY-4.0"},
        r \in {"absent", "none", "http://spdx.org/licenses/CC-BY-4.0"},
        l \in {"absent", "text"}}
    \cup
    {[CompleteMmd EXCEPT !.use_constraint = u] :
        u \in {UseConstraintText, NullUseConstraint}}

\* records that differ in their keywords element(s): one or several, with a
\* vocabulary in either case, and with one keyword or a list of keywords
SomeKeywordGroups ==
    {KeywordGroup(v, "str", <<"k">>) : v \in {"GCMDSK", "gcmdsk", "CFSTDN"}}
    \cup
    {KeywordGroup(v, "list", ks) :
        v \in {"GCMDSK", "gcmdsk", "CFSTDN"}, ks \in {<<"a", "b">>, <<"a", "none">>}}
KeywordRecords ==
    {[CompleteMmd EXCEPT !.keywords = g] : g \in SomeKeywordGroups}
    \cup
    {[CompleteMmd EXCEPT !.keywords = [shape |-> "list", entries |-> gs]] :
        gs \in SeqsOver(SomeKeywordGroups, 2, MaxGroup)}

FieldInputs ==
    MissingRecords \cup ShapeRecords \cup UpdateRecords \cup PersonnelRecords
    \cup DataCenterRecords \cup PlatformRecords \cup RectangleRecords
    \cup TemporalRecords \cup UseConstraintRecords \cup KeywordRecords

InitFields ==
    /\ store = << >>
    /\ pc = [p \in Procs |-> "idle"]
    /\ rec \in {[p \in Procs |-> r] : r \in FieldInputs}
    /\ mydict = [p \in Procs |-> NoDoc]
    /\ myresults = [p \in Procs |-> NoDoc]
    /\ myparid = [p \in Procs |-> << >>]
    /\ ops = [p \in Procs |-> << >>]
    /\ outcome = [p \in Procs |-> NoOutcome]
    /\ linked = << >>
    /\ calls = 0

\* MMD4SolR(file).check_mmd(): the record is corrected in place; the call
\* returns or raises
CheckMmd(p) ==
    /\ pc[p] = "idle"
    /\ calls = 0
    /\ calls' = calls + 1
    /\ rec' = [rec EXCEPT ![p] = check_mmd(rec[p]).doc]
    /\ IF check_mmd(rec[p]).raised
       THEN /\ outcome' = [outcome EXCEPT ![p] = Raised(check_mmd(rec[p]).err)]
            /\ UNCHANGED pc
       ELSE /\ outcome' = [outcome EXCEPT ![p] = Returned("None")]
            /\ pc' = [pc EXCEPT ![p] = "checked"]
    /\ UNCHANGED <<store, mydict, myresults, myparid, ops, linked>>

\* MMD4SolR.tosolr() on the checked record: raises or returns the document
TransformFields(p) ==
    /\ pc[p] = "checked"
    /\ IF TosolrError(rec[p]) # "none"
       THEN /\ outcome' = [outcome EXCEPT ![p] = Raised(TosolrError(rec[p]))]
            /\ pc' = [pc EXCEPT ![p] = "idle"]
            /\ UNCHANGED mydict
       ELSE /\ outcome' = [outcome EXCEPT ![p] = Returned("mydict")]
            /\ pc' = [pc EXCEPT ![p] = "described"]
            /\ mydict' = [mydict EXCEPT ![p] = TosolrFields(rec[p])]
    /\ UNCHANGED <<store, rec, myresults, myparid, ops, linked, calls>>

CheckGiven == CheckMmd(Main)
DescribeGiven == TransformFields(Main)

NextFields ==
    \/ CheckGiven
    \/ DescribeGiven

SpecFields == InitFields /\ [][NextFields]_vars

(***************************************************************************)
(* IndexMMD.delete_level1, IndexMMD.delete_level2                          *)
(***************************************************************************)

\* self.solrc.delete(id=datasetid): the core without the document of that id
StoreDelete(st, id) == [i \in DOMAIN st \ {id} |-> st[i]]

\* the attributes __init__ binds to a Solr client
SolrClients == {"solrc"}

\* a delete of the documents the call names, seen from the caller: delok
\* says whether the client's delete succeeds
DeleteVia(p, client, what, datasetid, delok) ==
    /\ pc[p] = "idle"
    /\ UNCHANGED <<pc, rec, mydict, myresults, myparid, linked, calls>>
    /\ IF client \notin SolrClients
       THEN \* the attribute lookup raises inside the try; logged and re-raised
            /\ ops' = [ops EXCEPT ![p] = << >>]
            /\ outcome' = [outcome EXCEPT ![p] = Raised("AttributeError")]
            /\ UNCHANGED store
       ELSE /\ ops' = [ops EXCEPT ![p] = << Op("delete", what, delok, 0) >>]
            /\ IF delok
               THEN /\ store' = StoreDelete(store, datasetid)
                    /\ outcome' = [outcome EXCEPT ![p] = Returned("None")]
               ELSE /\ UNCHANGED store
                    /\ outcome' = [outcome EXCEPT ![p] = Raised("Exception")]

\* delete_level1(datasetid) calls self.solrc.delete
delete_level1(p, datasetid, delok) == DeleteVia(p, "solrc", "level1", datasetid, delok)

\* delete_level2(datasetid) calls self.solr2.delete; __init__ binds no solr2
delete_level2(p, datasetid, delok) == DeleteVia(p, "solr2", "level2", datasetid, delok)

(***************************************************************************)
(* Deletions from a core that holds some of the records                    *)
(***************************************************************************)

\* the documents earlier runs may have stored: the parent at level 1, the
\* others at level 2
Stored(r) == TagLevel(TosolrDoc(r), IF r = RecParent THEN "1" ELSE "2")
StoredRecords == {RecParent, RecChildA, RecChildB, RecWild, RecInactive}

\* the core that holds the documents of the records rs
RECURSIVE StoreOf(_)
StoreOf(rs) ==
    IF rs = {} THEN << >>
    ELSE LET r == CHOOSE x \in rs : TRUE IN StoreAdd(StoreOf(rs \ {r}), Stored(r))

\* the ids a caller asks to delete: those of the records, stored or not
DeleteIds == {TosolrId(r) : r \in StoredRecords}

InitDelete ==
    /\ store \in {StoreOf(rs) : rs \in SUBSET StoredRecords}
    /\ pc = [p \in Procs |-> "idle"]
    /\ rec = [p \in Procs |-> RecParent]
    /\ mydict = [p \in Procs |-> NoDoc]
    /\ myresults = [p \in Procs |-> NoDoc]
    /\ myparid = [p \in Procs |-> << >>]
    /\ ops = [p \in Procs |-> << >>]
    /\ outcome = [p \in Procs |-> NoOutcome]
    /\ linked = << >>
    /\ calls = 0

DoDeleteLevel1 ==
    \E datasetid \in DeleteIds, delok \in BOOLEAN : delete_level1(Main, datasetid, delok)
DoDeleteLevel2 ==
    \E datasetid \in DeleteIds, delok \in BOOLEAN : delete_level2(Main, datasetid, delok)

NextDelete ==
    \/ DoDeleteLevel1
    \/ DoDeleteLevel2

SpecDelete == InitDelete /\ [][NextDelete]_vars

(***************************************************************************)
(* Properties                                                              *)
(***************************************************************************)

Last(s) == s[Len(s)]
NoDuplicates(l) == \A i, j \in 1..Len(l) : l[i] = l[j] => i = j
Occurrences(e, l) == Cardinality({i \in 1..Len(l) : l[i] = e})

\* the call of process p ended with both add_level2 writes done
LinkWritten(p) ==
    /\ pc[p] = "idle"
    /\ ops[p] # << >>
    /\ Last(ops[p]) = Op("add", "parent", TRUE, 0)

\* C1: in a sequential run no stored related_dataset list ever holds a
\* duplicate, and every child linked to a parent by add_level2 (once or
\* several times) is listed exactly once in that parent's list.
C1_IdempotentChildLink ==
    /\ \A id \in DOMAIN store : NoDuplicates(store[id].related_dataset.list)
    /\ \A i \in 1..Len(linked) :
          /\ linked[i].parent \in DOMAIN store
          /\ store[linked[i].parent].related_dataset.kind = "list"
               => Occurrences(linked[i].child,
                              store[linked[i].parent].related_dataset.list) = 1

\* C1 witness: the same child has been linked twice to the same stored parent
C1_Witness ==
    /\ \E i, j \in 1..Len(linked) :
          /\ i < j
          /\ linked[i].parent = linked[j].parent
          /\ linked[i].child = linked[j].child
          /\ store[linked[i].parent].related_dataset.kind = "list"
    /\ LinkWritten(Main)

\* C2: the parent write of add_level2 is a blind overwrite. After a process's
\* parent write, and until another link is written, the stored parent is
\* exactly that process's own copy (what it fetched plus its child), whatever
\* another process wrote between its search and its write: a child linked in
\* between is lost although both calls completed.
C2_LostUpdate ==
    \A q \in Procs :
        (Len(linked) > 0 /\ Last(linked).by = q /\ LinkWritten(q))
            => /\ myresults[q].id \in DOMAIN store
               /\ store[myresults[q].id] = myresults[q]

\* C2 witness: both processes completed add_level2 for different children of
\* the same parent, and the stored parent lists only one of them
C2_Witness ==
    /\ \A p \in Procs : LinkWritten(p)
    /\ ChildEntry(mydict["p1"]) # ChildEntry(mydict["p2"])
    /\ myresults["p1"].id = myresults["p2"].id
    /\ \E p \in Procs :
          ~InList(ChildEntry(mydict[p]),
                  store[myresults[p].id].related_dataset.list)
    /\ Len(store[myresults["p1"].id].related_dataset.list) = 1

\* a search of the current call that succeeded and matched n documents, n # 1
SearchNotUnique(o) == o.op = "search" /\ o.ok /\ o.n # 1

\* C3: when the parent search returns zero or several documents, add_level2
\* ends there: the search is the last external call of the call, nothing is
\* added to the store, the store is unchanged by the step, and the call
\* returns (None) instead of raising.
C3_NoUniqueParentNoWrite ==
    /\ [](\A p \in Procs : \A i \in 1..Len(ops[p]) :
            SearchNotUnique(ops[p][i])
                => /\ i = Len(ops[p])
                   /\ pc[p] = "idle"
                   /\ outcome[p] = Returned("None")
                   /\ \A j \in 1..Len(ops[p]) : ops[p][j].op # "add")
    /\ [][\A p \in Procs :
            (pc[p] = "l2_search" /\ pc'[p] = "idle" /\ SearchNotUnique(Last(ops'[p])))
                => store' = store]_vars

\* C3 witness: a call ended at a search that matched two or more parents,
\* with documents in the store
C3_Witness ==
    /\ ops[Main] # << >>
    /\ SearchNotUnique(Last(ops[Main]))
    /\ Last(ops[Main]).n >= 2
    /\ outcome[Main] = Returned("None")

\* C3, second case: a call ended at a search that matched no parent
C3_WitnessNotFound ==
    /\ ops[Main] # << >>
    /\ SearchNotUnique(Last(ops[Main]))
    /\ Last(ops[Main]).n = 0
    /\ DOMAIN store # {}

\* C4: add_level2 writes the child first and the parent second, as two
\* store adds: a parent add is always directly preceded by a child add that
\* succeeded, a child add is directly preceded by the search that matched
\* exactly one parent, and a failed child add is the last store call of the
\* call, which then raises.
C4_ChildThenParent ==
    \A p \in Procs : \A i \in 1..Len(ops[p]) :
        /\ (ops[p][i].op = "add" /\ ops[p][i].doc = "parent")
              => i > 1 /\ ops[p][i - 1] = Op("add", "child", TRUE, 0)
        /\ (ops[p][i].op = "add" /\ ops[p][i].doc = "child")
              => i > 1 /\ ops[p][i - 1] = Op("search", "none", TRUE, 1)
        /\ ops[p][i] = Op("add", "child", FALSE, 0)
              => /\ i = Len(ops[p])
                 /\ pc[p] = "idle"
                 /\ outcome[p] = Raised("Exception")
        /\ (ops[p][i] = Op("add", "child", TRUE, 0) /\ i = Len(ops[p]))
              => pc[p] = "l2_add_parent"

\* C4 witness: a call that wrote the child and then the parent
C4_Witness ==
    /\ LinkWritten(Main)
    /\ Len(ops[Main]) >= 3
    /\ ops[Main][Len(ops[Main]) - 1] = Op("add", "child", TRUE, 0)
    /\ ops[Main][Len(ops[Main]) - 2] = Op("search", "none", TRUE, 1)

\* C4, second case: a call whose child add failed
C4_WitnessChildFailed ==
    /\ ops[Main] # << >>
    /\ Last(ops[Main]) = Op("add", "child", FALSE, 0)
    /\ outcome[Main] = Raised("Exception")

\* C5: the value add_level2 puts into the parent's related_dataset list for a
\* child is the child's sanitized identifier, the 'id' of the child document.
\* (Violated: the code appends metadata_identifier.replace(':','_').)
C5_AppendedIsChildId ==
    \A p \in Procs :
        pc[p] = "l2_add_child"
            => /\ ChildEntry(mydict[p]) = mydict[p].id
               /\ InList(mydict[p].id, myresults[p].related_dataset.list)

\* a store call (search or add) that failed
StoreCallFailed(o) == o.op \in {"search", "add"} /\ ~o.ok

\* C7: a failed store read or write ends the call in an error that carries
\* the store failure (the exception built from it), the failed call is the
\* last store call of that call and is not repeated.
\* (Violated: index_record returns False; a failed search ends in an
\* UnboundLocalError.)
C7_StoreFailureSurfaced ==
    \A p \in Procs : \A i \in 1..Len(ops[p]) :
        StoreCallFailed(ops[p][i])
            => /\ i = Len(ops[p])
               /\ pc[p] = "idle"
               /\ outcome[p] = Raised("Exception")

\* the character an identifier character becomes in the document id
SanitizedChar(c) == IF c \in {":", "/", "."} THEN "-" ELSE c

C8_LevelTagging ==
    [][(pc[Main] = "transformed" /\ outcome'[Main].kind = "return") =>
       \A level \in Levels, addThumbnail \in BOOLEAN,
          reply \in FeatureRepliesFor(mydict[Main]), addok \in BOOLEAN :
        \A thumb \in ThumbRepliesFor(mydict[Main], addThumbnail) :
          index_record(Main, level, addThumbnail, reply, thumb, addok)
            => /\ level \in {"1", "None"}
                    => /\ mydict'[Main].dataset_type = "Level-1"
                       /\ mydict'[Main].isParent = "false"
               /\ level = "2"
                    => /\ mydict'[Main].dataset_type = "Level-2"
                       /\ mydict'[Main].isParent = mydict[Main].isParent
                       /\ mydict'[Main].isParent = "absent"
               /\ outcome'[Main] = Returned("True")
                    => store'[mydict'[Main].id] = mydict'[Main]]_vars

\* C8 witness: a record indexed with level 2 is stored as Level-2 without isParent
C8_Witness ==
    /\ pc[Main] = "idle"
    /\ outcome[Main] = Returned("True")
    /\ mydict[Main].dataset_type = "Level-2"
    /\ mydict[Main].isParent = "absent"
    /\ mydict[Main].id \in DOMAIN store
    /\ store[mydict[Main].id].dataset_type = "Level-2"

\* C8, second case: a record indexed with level 1 or None
C8_WitnessLevel1 ==
    /\ pc[Main] = "idle"
    /\ outcome[Main] = Returned("True")
    /\ mydict[Main].dataset_type = "Level-1"
    /\ mydict[Main].isParent = "false"

\* the record has a single rectangle with an empty bound
HasNullBound(r) ==
    /\ r.geographic_extent.shape = "dict"
    /\ \/ r.geographic_extent.rects[1].north = << >>
       \/ r.geographic_extent.rects[1].south = << >>
       \/ r.geographic_extent.rects[1].east = << >>
       \/ r.geographic_extent.rects[1].west = << >>

\* C9: for a record with a single rectangle of which north, south, east or
\* west is empty, tosolr raises 'Missing spatial bounds' and returns no
\* document, so that neither index_record nor add_level2 is called for it and
\* nothing reaches the store.
C9_MissingBoundsFatal ==
    (calls > 0 /\ HasNullBound(rec[Main]))
        => /\ outcome[Main] = Raised("Missing spatial bounds")
           /\ mydict[Main] = NoDoc
           /\ pc[Main] = "idle"
           /\ ops[Main] = << >>
           /\ store = << >>

\* C9 witness: the record whose only empty bound is east was transformed
C9_Witness ==
    /\ calls > 0
    /\ rec[Main].geographic_extent.shape = "dict"
    /\ rec[Main].geographic_extent.rects[1].north = <<70>>
    /\ rec[Main].geographic_extent.rects[1].south = <<60>>
    /\ rec[Main].geographic_extent.rects[1].east = << >>
    /\ rec[Main].geographic_extent.rects[1].west = <<60>>
    /\ outcome[Main] = Raised("Missing spatial bounds")

C11_RequiredDefaulted ==
    [][CheckGiven =>
        \A f \in RequiredFields :
            rec[Main][f].shape \in {"absent", "none"}
                => rec'[Main][f] = Plain(Unknown)]_vars

\* every keywords dict of the record carries the vocabulary attribute
VocabularyGiven(k) ==
    CASE k.shape = "dict" -> k.vocabulary # "absent"
      [] k.shape = "list" ->
            \A i \in 1..Len(k.entries) : k.entries[i].vocabulary # "absent"
      [] OTHER -> TRUE

\* C12: check_mmd runs to completion without raising, for every record whose
\* required elements are absent, empty or given (keywords with their vocabulary).
C12_CheckNeverRaises ==
    [][(CheckGiven /\ VocabularyGiven(rec[Main].keywords))
            => outcome'[Main].kind # "raise"]_vars

\* the personnel entries of the record with this role code
PersonsOf(r, c) ==
    {i \in 1..Len(r.personnel) :
        /\ r.personnel[i].role \in DOMAIN personnel_role_LUT
        /\ personnel_role_LUT[r.personnel[i].role] = c}

AllRolesValid(r) ==
    \A i \in 1..Len(r.personnel) : r.personnel[i].role \in DOMAIN personnel_role_LUT

\* C13: for a record whose k personnel entries all have a role of the lookup
\* table, personnel_<role>_role and personnel_<role>_name have as many elements
\* as there are entries of that role, and personnel_role and personnel_name
\* have k elements.
C13_PersonnelCardinality ==
    (pc[Main] = "described" /\ AllRolesValid(rec[Main])) =>
        /\ \A c \in RoleCodes, e \in {"role", "name"} :
              Len(mydict[Main].personnel.qualified[c][e])
                  = Cardinality(PersonsOf(rec[Main], c))
        /\ \A e \in {"role", "name"} :
              Len(mydict[Main].personnel.facet[e]) = Len(rec[Main].personnel)

\* all lists of a family of lists have the same length
SameLength(fam) == \A a, b \in DOMAIN fam : Len(fam[a]) = Len(fam[b])

\* C14: in every document tosolr returns, the lists of one repeated group (the
\* personnel lists of one role, the data_center lists, the platform lists, the
\* last_metadata_update lists) have the same length.
C14_FamiliesAligned ==
    pc[Main] = "described" =>
        /\ \A c \in RoleCodes : SameLength(mydict[Main].personnel.qualified[c])
        /\ SameLength(mydict[Main].data_center)
        /\ SameLength(mydict[Main].platform)
        /\ Len(mydict[Main].last_metadata_update_type)
              = Len(mydict[Main].last_metadata_update_datetime)
        /\ Len(mydict[Main].last_metadata_update_note)
              = Len(mydict[Main].last_metadata_update_datetime)

\* C15: for a single rectangle with all four bounds, bbox is
\* ENVELOPE(west,east,north,south) and polygon_rpt is set: the point
\* (east, north) if north = south and east = west, otherwise the box.
C15_SingleRectangleGeometry ==
    (pc[Main] = "described" /\ rec[Main].geographic_extent.shape = "dict") =>
        LET e == rec[Main].geographic_extent.rects[1]
            g == mydict[Main].geographic
        IN /\ g.bbox = Envelope(e.west[1], e.east[1], e.north[1], e.south[1])
           /\ g.polygon_rpt =
                IF e.north = e.south /\ e.east = e.west
                THEN PointWkt(e.east[1], e.north[1])
                ELSE BoxWkt(e.west[1], e.south[1], e.east[1], e.north[1])

\* every bound of every rectangle is given
AllBoundsGiven(rs) == \A i \in 1..Len(rs), k \in BoundKeys : rs[i][k] # << >>

\* C16: for several rectangles (all bounds given) north is the greatest north,
\* south the least south, east the greatest east, west the least west, and
\* polygon_rpt is decided from that box: a point if it is degenerate, else the box.
C16_EnclosingBox ==
    (/\ pc[Main] = "described"
     /\ rec[Main].geographic_extent.shape = "list"
     /\ AllBoundsGiven(rec[Main].geographic_extent.rects)) =>
        LET rs == rec[Main].geographic_extent.rects
            g == mydict[Main].geographic
            n == SetMax(BoundsOf(rs, {"north"}))
            so == SetMin(BoundsOf(rs, {"south"}))
            ea == SetMax(BoundsOf(rs, {"east"}))
            w == SetMin(BoundsOf(rs, {"west"}))
        IN /\ g.north = <<n>> /\ g.south = <<so>>
           /\ g.east = <<ea>> /\ g.west = <<w>>
           /\ g.polygon_rpt =
                IF n = so /\ ea = w THEN PointWkt(ea, n) ELSE BoxWkt(w, so, ea, n)

\* the step is an index_record that stores the record with a level other
\* than 1 or None
StoresOtherLevel ==
    /\ pc[Main] = "transformed"
    /\ store' # store
    /\ mydict'[Main].dataset_type # "Level-1"

\* C17: a stored parent document that lists children keeps isParent 'true'
\* and keeps every listed child through each later index_record (level 1)
\* and add_level2 step.
C17_LinkSurvives ==
    [][~StoresOtherLevel =>
        \A id \in DOMAIN store :
            (store[id].isParent = "true" /\ store[id].related_dataset.kind = "list")
            => /\ id \in DOMAIN store'
               /\ store'[id].isParent = "true"
               /\ store'[id].related_dataset.kind = "list"
               /\ \A i \in 1..Len(store[id].related_dataset.list) :
                     InList(store[id].related_dataset.list[i],
                            store'[id].related_dataset.list)]_vars

\* the list is the other list, or the other list with one entry appended
ExtendedByAtMostOne(new, old) ==
    \/ new = old
    \/ /\ new.kind = "list"
       /\ old.kind \in {"list", "absent"}
       /\ Len(new.list) = Len(old.list) + 1
       /\ SubSeq(new.list, 1, Len(old.list)) = old.list

\* C18: the parent document add_level2 prepares from the fetched one has no
\* store-internal field, has isParent 'true', has related_dataset extended by
\* at most one entry and every other field as fetched; the parent add writes
\* exactly this document.
C18_ParentRewriteFrame ==
    [][/\ (pc[Main] = "l2_search" /\ pc'[Main] = "l2_add_child") =>
            LET fetched == CHOOSE d \in StoreSearch(store, myparid[Main]) : TRUE
                written == myresults'[Main]
            IN /\ written.internal \cap StoreInternal = {}
               /\ written.isParent = "true"
               /\ ExtendedByAtMostOne(written.related_dataset, fetched.related_dataset)
               /\ \A f \in DOMAIN fetched \ {"internal", "isParent", "related_dataset"} :
                     written[f] = fetched[f]
       /\ (pc[Main] = "l2_add_child") => myresults'[Main] = myresults[Main]
       /\ (pc[Main] = "l2_add_parent" /\ store' # store) =>
            /\ store'[myresults[Main].id] = myresults[Main]
            /\ \A id \in DOMAIN store \ {myresults[Main].id} :
                  id \in DOMAIN store' /\ store'[id] = store[id]]_vars

\* C18 witness: a parent that already listed one child was fetched, extended
\* by the second child and written back with its other fields as stored
C18_Witness ==
    /\ pc[Main] = "idle"
    /\ outcome[Main] = Returned("None")
    /\ ops[Main] # << >>
    /\ Last(ops[Main]) = Op("add", "parent", TRUE, 0)
    /\ myresults[Main].id \in DOMAIN store
    /\ store[myresults[Main].id] = myresults[Main]
    /\ myresults[Main].related_dataset.kind = "list"
    /\ Len(myresults[Main].related_dataset.list) = 2
    /\ myresults[Main].dataset_type = "Level-1"
    /\ myresults[Main].internal = {}

\* C19: whenever the parent search returns exactly one document (whose
\* related_dataset is not a string), add_level2 goes on to the child write,
\* whatever store-internal fields the document carries.
C19_UniqueParentProceeds ==
    [][(/\ pc[Main] = "l2_search"
        /\ ops'[Main] # << >>
        /\ Last(ops'[Main]) = Op("search", "none", TRUE, 1)
        /\ \A d \in StoreSearch(store, myparid[Main]) : d.related_dataset.kind # "str")
            => pc'[Main] = "l2_add_child"]_vars

\* C20: index_record with a level other than 1, 2 or None makes no store add
\* and leaves the store as it was.
C20_InvalidLevelTerminates ==
    [][pc[Main] = "transformed" =>
        \A addThumbnail \in BOOLEAN, reply \in FeatureRepliesFor(mydict[Main]),
           addok \in BOOLEAN :
         \A thumb \in ThumbRepliesFor(mydict[Main], addThumbnail) :
            index_record(Main, "3", addThumbnail, reply, thumb, addok)
                => /\ store' = store
                   /\ \A i \in 1..Len(ops'[Main]) : ops'[Main][i].op # "add"]_vars

\* the entries of the record whose role is in the lookup table
ValidPersons(r) ==
    {i \in 1..Len(r.personnel) : r.personnel[i].role \in DOMAIN personnel_role_LUT}

\* C21: a personnel entry whose role is empty or not in the lookup table adds
\* nothing, and every entry with a valid role, before or after it, is still
\* appended: personnel_<role>_role has one element per entry of that role and
\* personnel_role one element per entry with a valid role.
C21_SkipIsLocal ==
    pc[Main] = "described" =>
        /\ \A c \in RoleCodes :
              Len(mydict[Main].personnel.qualified[c]["role"])
                  = Cardinality(PersonsOf(rec[Main], c))
        /\ Len(mydict[Main].personnel.facet["role"])
              = Cardinality(ValidPersons(rec[Main]))

\* C22: for several rectangles of which any bounds are None, in any rectangle
\* including the last, tosolr returns without raising, and north, south, east
\* and west are the extremes of the bounds that are given.
C22_NullBoundSkipped ==
    [][(pc[Main] = "checked" /\ rec[Main].geographic_extent.shape = "list") =>
        LET rs == rec[Main].geographic_extent.rects
            g == mydict'[Main].geographic
        IN /\ pc'[Main] = "described"
           /\ (Latvals(rs) # {} /\ Lonvals(rs) # {}) =>
                 /\ g.north = <<SetMax(Latvals(rs))>>
                 /\ g.south = <<SetMin(Latvals(rs))>>
                 /\ g.east = <<SetMax(Lonvals(rs))>>
                 /\ g.west = <<SetMin(Lonvals(rs))>>]_vars

\* C23: a record whose geographic_extent is absent or None gives a document
\* with north 90, south -90, east 180 and west -180.
C23_WorldExtentFallback ==
    (pc[Main] = "described"
     /\ rec[Main].geographic_extent.shape \in {"absent", "none"}) =>
        /\ mydict[Main].geographic.north = <<90>>
        /\ mydict[Main].geographic.south = <<-90>>
        /\ mydict[Main].geographic.east = <<180>>
        /\ mydict[Main].geographic.west = <<-180>>

\* the years of the timestamps of the checked elements that are not ''
YearsGiven(t) ==
    {t.items[p[1]][p[2]].year :
        p \in {q \in (1..Len(t.items)) \X {"start_date", "end_date"} :
                  t.items[q[1]][q[2]].kind \in {"date", "utc"}}}

\* C24: for a list of temporal extents tosolr returns, and if the list has a
\* timestamp, temporal_extent_start_date is the least and
\* temporal_extent_end_date the greatest of the timestamps that are not
\* empty, whatever their years and also when the first value is empty.
C24_TemporalReduction ==
    [][(pc[Main] = "checked" /\ rec[Main].temporal_extent.shape = "list") =>
        LET t == rec[Main].temporal_extent IN
        /\ pc'[Main] = "described"
        /\ YearsGiven(t) # {} =>
              /\ mydict'[Main].temporal_extent_start_date
                    = DateString(Time("utc", SetMin(YearsGiven(t))))
              /\ mydict'[Main].temporal_extent_end_date
                    = DateString(Time("utc", SetMax(YearsGiven(t))))]_vars

\* the entries of the record's related_dataset element(s) that have relation
\* type 'parent' and an identifier
ParentEntries(r) ==
    {i \in 1..Len(r.related_dataset.entries) :
        /\ r.related_dataset.entries[i].relation_type = "parent"
        /\ r.related_dataset.entries[i].hastext}

\* C25: the document's related_dataset is set only from an entry with relation
\* type 'parent', whether the record has one related_dataset entry or several,
\* and is that entry's identifier with ':', '/' and '.' replaced by '-'; a
\* record without a parent entry gets no related_dataset.
C25_ParentReferenceOnly ==
    pc[Main] = "transformed" =>
        IF ParentEntries(rec[Main]) = {}
        THEN mydict[Main].related_dataset = RdAbsent
        ELSE \E i \in ParentEntries(rec[Main]) :
                mydict[Main].related_dataset
                    = RdStr(SanitizeId(rec[Main].related_dataset.entries[i].text))

RECURSIVE GcmdOf(_, _)
GcmdOf(ks, vs) ==
    IF ks = << >> \/ vs = << >> THEN << >>
    ELSE IF Upper(Head(vs)) = "GCMDSK"
         THEN <<Head(ks)>> \o GcmdOf(Tail(ks), Tail(vs))
         ELSE GcmdOf(Tail(ks), Tail(vs))

\* C27: keywords_keyword and keywords_vocabulary have the same length, and
\* keywords_gcmd is, in order, the keywords whose vocabulary is GCMDSK
\* whatever its case ('gcmdsk' as well as 'GCMDSK').
C27_GcmdShadowIndex ==
    pc[Main] = "described" =>
        LET k == mydict[Main].keywords IN
        /\ Len(k.keyword) = Len(k.vocabulary)
        /\ k.gcmd = GcmdOf(k.keyword, k.vocabulary)

\* the text of the first entry with language 'en'
EnglishEntry(es) ==
    es[CHOOSE i \in 1..Len(es) : es[i].lang = "en"].text

\* C28: of several titles the one with language 'en' is the document's title;
\* a single title without a language attribute, a plain string or an element
\* with other attributes, is the document's title.
C28_TitleSelection ==
    pc[Main] = "described" =>
        LET t == rec[Main].title IN
        /\ (t.shape = "list" /\ \E i \in 1..Len(t.entries) : t.entries[i].lang = "en")
              => mydict[Main].title = Set(EnglishEntry(t.entries))
        /\ t.shape = "str" => mydict[Main].title = Set(t.text)
        /\ (t.shape = "dict" /\ t.lang = "absent") => mydict[Main].title = Set(t.text)

\* the label the document carries for a featureType attribute that was read
Normalized(label) ==
    IF label \in {"TimeSeries", "timeseries", "timseries"} THEN "timeSeries" ELSE label

\* C29: when the feature type lookup fails, index_record still goes on to the
\* store add and add_level2 to the parent search (and its writes), with a
\* document without feature_type; when it succeeds feature_type is the label,
\* 'TimeSeries', 'timeseries' and 'timseries' written as 'timeSeries' and any
\* other label as it was read. The document written is the one so prepared.
C29_FeatureTypeNonFatal ==
    [][/\ (/\ pc[Main] = "transformed"
           /\ mydict[Main].data_access_url_opendap # "absent"
           /\ mydict[Main].metadata_status # "Inactive") =>
            \A addThumbnail \in BOOLEAN, reply \in FeatureReplies :
             \A thumb \in ThumbRepliesFor(mydict[Main], addThumbnail) :
               LET expected == IF reply = "fail" THEN "absent" ELSE Normalized(reply)
               IN /\ \A level \in Levels, addok \in BOOLEAN :
                        index_record(Main, level, addThumbnail, reply, thumb, addok)
                          => /\ mydict'[Main].feature_type = expected
                             /\ Last(ops'[Main]) = Op("add", "record", addok, 0)
                             /\ addok => store'[mydict'[Main].id].feature_type = expected
                  /\ (/\ add_level2_begin(Main, addThumbnail, reply, thumb)
                      /\ mydict[Main].related_dataset.kind = "str"
                      /\ ~ThumbUnbound(mydict[Main], addThumbnail))
                          => /\ mydict'[Main].feature_type = expected
                             /\ pc'[Main] = "l2_search"
       /\ (pc[Main] = "l2_add_child" /\ store' # store) =>
             store'[mydict[Main].id].feature_type = mydict[Main].feature_type
       /\ \A label \in {"TimeSeries", "timeseries", "timseries", "swath", "point"} :
             get_feature_type(label) = Normalized(label)]_vars

\* C29 witness: the lookup failed for a record with OPeNDAP access, and the
\* record was stored without feature_type
C29_Witness ==
    /\ pc[Main] = "idle"
    /\ Len(ops[Main]) = 2
    /\ ops[Main][1] = Op("feature", "none", FALSE, 0)
    /\ ops[Main][2] = Op("add", "record", TRUE, 0)
    /\ outcome[Main] = Returned("True")
    /\ mydict[Main].data_access_url_opendap # "absent"
    /\ mydict[Main].id \in DOMAIN store
    /\ store[mydict[Main].id].feature_type = "absent"

\* C30: delete_level1(id) and delete_level2(id) each call the store client's
\* delete for that id; when the delete succeeds the call returns and no
\* document with that id is left in the store, and when it fails the call
\* raises and the store is as it was.
C30_DeletePassThrough ==
    [][\A datasetid \in DeleteIds, delok \in BOOLEAN :
        \A what \in {"level1", "level2"} :
          (IF what = "level1" THEN delete_level1(Main, datasetid, delok)
                              ELSE delete_level2(Main, datasetid, delok))
            => /\ ops'[Main] = << Op("delete", what, delok, 0) >>
               /\ delok => /\ outcome'[Main] = Returned("None")
                           /\ datasetid \notin DOMAIN store'
               /\ ~delok => /\ outcome'[Main].kind = "raise"
                            /\ store' = store]_vars

====
